---- MODULE Spec2Model ----
(***************************************************************************)
(* A model of the serial bootloader client in                              *)
(* src/emsesp_flasher/own_esptool.py: SLIP framing (ESPLoader.write and    *)
(* slip_reader, flush_input), the command channel (ESPLoader.command and   *)
(* its timeout, check_command, sync), the flash writer (write_flash,       *)
(* flash_begin, flash_block ..., _update_image_flash_params),              *)
(* the session (connect, detect_chip, run_stub), the firmware images       *)
(* (merge_adjacent_segments, verify, ESP32FirmwareImage.save) and the      *)
(* checksum, and of the window in src/emsesp_flasher/gui.py (MainWindow,   *)
(* FlashingThread).                                                        *)
(* Each layer has its own specification; the variables of the other       *)
(* layers keep their initial values there.                                 *)
(***************************************************************************)
EXTENDS Integers, Sequences, FiniteSets, TLC

\* ------------------------------------------------------------------------
\* Bounds of the model
\* ------------------------------------------------------------------------

\* longest payload handed to ESPLoader.write
MaxLen == 3

\* longest response body the model's device sends
MaxBody == 5

\* most files handed to write_flash
MaxFiles == 2

\* most connection attempts the model lets an unbounded connect() make
MaxAttempts == 4

\* most FlashingThreads the model lets the window start
MaxThreads == 2

\* longest list of segments of different kinds the model builds an image of
MaxSegs == 3

\* most segments the model loads into one image
MaxSegments == 17

\* ------------------------------------------------------------------------
\* Framing: ESPLoader.write and slip_reader
\* ------------------------------------------------------------------------

VARIABLES
    fr_packet,        \* the packet last handed to ESPLoader.write
    fr_written,       \* TRUE once a packet has been written
    tx,               \* the buffer last handed to self._port.write
    wire,             \* bytes written to the port and not yet read back
    read_bytes,       \* slip_reader: the rest of the chunk being processed
    partial_packet,   \* slip_reader: <<>> for None, <<p>> for the packet p so far
    in_escape,        \* slip_reader: part-way through an escape sequence
    successful_slip,  \* slip_reader: a full packet has been received before
    sr_state,         \* slip_reader: "suspended" | "running" | "finished"
    yielded,          \* the packets read() returned since the last write
    fr_error          \* the error the last read() raised, "" for none

framingVars == <<fr_packet, fr_written, tx, wire, read_bytes, partial_packet,
                 in_escape, successful_slip, sr_state, yielded, fr_error>>

VARIABLES
    cm_caller,      \* who runs command(): "none" | "command" | "check_command" | "sync"
    cm_pc,          \* "idle" | "reading" (inside the retry loop) | "done"
    cm_op,          \* the op argument of the running command(), NoOp for None
    cm_sent,        \* the packet the running command() handed to write(), <<>> for none
    cm_retry,       \* frames the running command() has read
    cm_frame,       \* the frame read last, NoFrame before the first
    cm_outcome,     \* how the last command() ended, "" while it runs
    cm_result,      \* the (val, data) the last command() returned
    cm_flushes,     \* flush_input() calls made
    ck_sbl,         \* STATUS_BYTES_LENGTH of the loader running check_command
    ck_outcome,     \* how check_command ended
    ck_result,      \* what check_command returned
    sync_stub_detected,
    sy_phase,       \* sync(): commands completed, 0..8
    sy_vals,        \* sync(): the val each completed command returned
    sy_sent,        \* sync(): the packet its first command wrote
    sy_mock,        \* sync(): every frame read so far was the scenario's response
    tm              \* the read timeout of the port around command(), a
                    \* record, in milliseconds:
                    \*   port       self._port.timeout
                    \*   entry      self._port.timeout when the running (or
                    \*              last) command() was entered
                    \*   timeout    the timeout argument of that command()
                    \*   saved      saved_timeout
                    \*   new        new_timeout
                    \*   during     self._port.timeout after line 457, while
                    \*              the body of that command() ran

commandVars == <<cm_caller, cm_pc, cm_op, cm_sent, cm_retry, cm_frame,
                 cm_outcome, cm_result, cm_flushes, ck_sbl, ck_outcome,
                 ck_result, sync_stub_detected, sy_phase, sy_vals, sy_sent,
                 sy_mock, tm>>

VARIABLES
    esp,             \* the loader write_flash drives: its class, as a profile
    esp_secure,      \* esp.secure_download_mode
    args_compress,   \* args.compress
    wf_nfiles,       \* len(all_files)
    wf               \* the locals of write_flash and what it has sent, a record:
                     \*   pc            where write_flash is
                     \*   index         files of all_files taken so far
                     \*   file          the file in hand: address, size read,
                     \*                 encrypted, flash parameters patched
                     \*   compress      compress, for the file in hand
                     \*   uncsize       uncsize
                     \*   total         len(image) before the first block was cut off
                     \*   left          len(image), the part not sent yet
                     \*   calcmd5       calcmd5
                     \*   begin         the begin command issued for the file in hand
                     \*   blocks        blocks, as flash_begin / flash_defl_begin returned it
                     \*   seq           seq
                     \*   bytes_sent    bytes_sent
                     \*   bytes_written bytes_written (uncompressed writes)
                     \*   all_full      every block of the file was FLASH_WRITE_SIZE long
                     \*   attempts_left attempts_left of the running flash_*block call
                     \*   att           the attempts of the block written last, in order
                     \*   loop_done     the while loop of the file in hand has ended
                     \*   md5           the flash_md5sum requests made for the file in hand
                     \*   md5_res       res
                     \*   status        "verified" once 'Hash of data verified.' is printed
                     \*   file_done     the for loop's body ran to its end for the file
                     \*   error         the exception write_flash raised, "" for none

flashVars == <<esp, esp_secure, args_compress, wf_nfiles, wf>>

\* Session: ESPLoader.connect, ESPLoader.detect_chip, ESPLoader.run_stub
VARIABLES
    cn,              \* one call of connect(), a record:
                     \*   pc            where connect is
                     \*   cls           the class of self
                     \*   mode, attempts, detecting   the arguments
                     \*   made          calls of _connect_attempt so far
                     \*   failed        those of them that returned an error
                     \*   tries         sync() calls of the running _connect_attempt
                     \*   delays        extra_delay of each attempt, in order
                     \*   resets        calls of bootloader_reset
                     \*   last_error    last_error, "" for None
                     \*   sync_stub_detected, secure_download_mode,
                     \*   stub_is_disabled   the attributes of self
                     \*   raised_in     "attempt" when the exception came out of the loop
                     \*                 over the attempts, "post" when it came later
                     \*   error         the exception connect raised, "" for none
    dc,              \* one call of detect_chip(), a record:
                     \*   pc            where detect_chip is
                     \*   magic         chip_magic_value
                     \*   inst          the class of inst, "None" for None
                     \*   initialised   the classes instantiated in the loop, in order
                     \*   result        the loader returned
                     \*   reported      the value the FatalError of the last line names
                     \*   error         the exception detect_chip raised, "" for none
    rs               \* one call of run_stub(), a record:
                     \*   pc            where run_stub is
                     \*   self          the loader it is called on
                     \*   stub          the lengths of stub['text'] and stub['data']
                     \*   field         the field being uploaded: 1 text, 2 data
                     \*   seq           seq
                     \*   cmds          the mem_begin, mem_block and mem_finish
                     \*                 commands sent, in order
                     \*   reads         calls of self.read() for the handshake
                     \*   frame         p
                     \*   result        the loader returned
                     \*   error         the exception run_stub raised, "" for none

sessionVars == <<cn, dc, rs>>

\* The window: MainWindow and its FlashingThreads (gui.py)
VARIABLES
    gui,             \* the MainWindow, a record:
                     \*   _firmware     self._firmware, "" for None
                     \*   _port         self._port, "" for None
                     \*   _no_erase     self._no_erase
                     \*   items         the entries of port_combobox
                     \*   console       "empty" after console.clear(), "text"
                     \*                 once something was printed
    workers,         \* the FlashingThreads started so far, in order; each a
                     \* record:
                     \*   argv          the argv run() builds
                     \*   state         "started"   start() was called
                     \*                 "open"      its session holds the port open
                     \*                 "in_flight" a command of its session was
                     \*                             written and not yet answered
                     \*                 "closed"    its session closed the port
                     \*                 "raised"    run() ended with an exception
    platform         \* "posix": a port that is open can be opened again;
                     \* "nt": opening it again raises SerialException

guiVars == <<gui, workers, platform>>

\* Firmware images: BaseFirmwareImage and ESP32FirmwareImage
VARIABLES
    im,              \* one firmware image, a record:
                     \*   pc            "loaded", "merged", "verified", "raised"
                     \*   loaded        self.segments as they were loaded
                     \*   segments      self.segments
                     \*   error         the exception raised, "" for none
    sv               \* one call of ESP32FirmwareImage.save(), a record
                     \* described with SaveIdle

imageVars == <<im, sv>>

\* ESPLoader.checksum
VARIABLES
    cs               \* one use of checksum(), a record described with
                     \* ChecksumIdle

checksumVars == <<cs>>

\* The link as the device drives it, and the input buffer flush
VARIABLES
    rx,              \* the bytes the device has put on the line since the
                     \* decoder was last (re)created, in order
    flushed_after    \* what the read() before the last flush_input() had
                     \* raised: "" for nothing, "none" before any flush

linkVars == <<rx, flushed_after>>

\* flash_begin and _update_image_flash_params
VARIABLES
    fb,              \* one call of flash_begin(), a record described with
                     \* FlashBeginIdle
    uf               \* one call of _update_image_flash_params(), a record
                     \* described with UpdateIdle

toolVars == <<fb, uf>>

\* the variables each layer leaves alone
notFraming == <<commandVars, flashVars, sessionVars, guiVars, imageVars,
                checksumVars,
    linkVars, toolVars>>
notCommand == <<framingVars, flashVars, sessionVars, guiVars, imageVars,
                checksumVars,
    linkVars, toolVars>>
notFlash == <<framingVars, commandVars, sessionVars, guiVars, imageVars,
              checksumVars,
    linkVars, toolVars>>
notSession == <<framingVars, commandVars, flashVars, guiVars, imageVars,
                checksumVars,
    linkVars, toolVars>>
notGui == <<framingVars, commandVars, flashVars, sessionVars, imageVars,
            checksumVars,
    linkVars, toolVars>>
notImage == <<framingVars, commandVars, flashVars, sessionVars, guiVars,
              checksumVars,
    linkVars, toolVars>>
notChecksum == <<framingVars, commandVars, flashVars, sessionVars, guiVars,
                 imageVars,
    linkVars, toolVars>>
notTool == <<framingVars, commandVars, flashVars, sessionVars, guiVars,
            imageVars, checksumVars, linkVars>>
\* the link's actions act on the decoder too
notLink == <<commandVars, flashVars, sessionVars, guiVars, imageVars,
            checksumVars, toolVars>>

SLIP_END == 192
SLIP_ESC == 219
SLIP_ESC_END == 220
SLIP_ESC_ESC == 221

\* the byte values the model draws packets from: the four bytes the framing
\* treats specially and one ordinary byte
Bytes == {SLIP_END, SLIP_ESC, SLIP_ESC_END, SLIP_ESC_ESC, 1}

RECURSIVE SeqsUpTo(_, _)
SeqsUpTo(S, n) ==
    IF n = 0 THEN {<<>>}
    ELSE LET shorter == SeqsUpTo(S, n - 1)
         IN  shorter \cup {Append(s, b) : s \in {t \in shorter : Len(t) = n - 1}, b \in S}

Packets == SeqsUpTo(Bytes, MaxLen)

\* bytes.replace(old, new) for a one-byte pattern
RECURSIVE Replace(_, _, _)
Replace(s, old, new) ==
    IF s = <<>> THEN <<>>
    ELSE (IF Head(s) = old THEN new ELSE <<Head(s)>>) \o Replace(Tail(s), old, new)

\* a slip: the delimiter is escaped before the escape byte, so the escape
\* bytes of an escaped delimiter are escaped a second time
SlipEncodeSwapped(packet) ==
    <<SLIP_END>>
    \o Replace(Replace(packet, SLIP_END, <<SLIP_ESC, SLIP_ESC_END>>),
               SLIP_ESC, <<SLIP_ESC, SLIP_ESC_ESC>>)
    \o <<SLIP_END>>

\* a slip: only the delimiter is escaped
SlipEncodeNoEsc(packet) ==
    <<SLIP_END>>
    \o Replace(packet, SLIP_END, <<SLIP_ESC, SLIP_ESC_END>>)
    \o <<SLIP_END>>

\* the buffer ESPLoader.write hands to the port
SlipEncode(packet) ==
    <<SLIP_END>>
    \o Replace(Replace(packet, SLIP_ESC, <<SLIP_ESC, SLIP_ESC_ESC>>),
               SLIP_END, <<SLIP_ESC, SLIP_ESC_END>>)
    \o <<SLIP_END>>

FramingInit ==
    /\ fr_packet = <<>>
    /\ fr_written = FALSE
    /\ tx = <<>>
    /\ wire = <<>>
    /\ read_bytes = <<>>
    /\ partial_packet = <<>>
    /\ in_escape = FALSE
    /\ successful_slip = FALSE
    /\ sr_state = "suspended"
    /\ yielded = <<>>
    /\ fr_error = ""

\* ESPLoader.write(packet), the port looped back to the reader. The caller is
\* single-threaded: it writes when no read() is running, and here only once
\* the frame written before has been read back.
Write(packet) ==
    /\ sr_state # "running"
    /\ wire = <<>> /\ read_bytes = <<>> /\ partial_packet = <<>>
    /\ fr_packet' = packet
    /\ fr_written' = TRUE
    /\ tx' = SlipEncode(packet)
    /\ wire' = SlipEncode(packet)
    /\ yielded' = <<>>
    /\ UNCHANGED <<read_bytes, partial_packet, in_escape, successful_slip,
                   sr_state, fr_error>>
    /\ UNCHANGED notFraming

\* ESPLoader.read(): next(self._slip_reader). A generator that has raised is
\* finished, and next() on it raises StopIteration.
ReadCall ==
    /\ sr_state # "running"
    /\ IF sr_state = "finished"
       THEN /\ fr_error' = "StopIteration"
            /\ UNCHANGED sr_state
       ELSE /\ fr_error' = ""
            /\ sr_state' = "running"
    /\ UNCHANGED <<fr_packet, fr_written, tx, wire, read_bytes, partial_packet,
                   in_escape, successful_slip, yielded>>
    /\ UNCHANGED notFraming

\* slip_reader, top of the while loop: port.read(1 if waiting == 0 else
\* waiting) returns the n bytes that have arrived so far.
ReadChunk(n) ==
    /\ sr_state = "running"
    /\ read_bytes = <<>>
    /\ n \in 1..Len(wire)
    /\ read_bytes' = SubSeq(wire, 1, n)
    /\ wire' = SubSeq(wire, n + 1, Len(wire))
    /\ UNCHANGED <<fr_packet, fr_written, tx, partial_packet, in_escape,
                   successful_slip, sr_state, yielded, fr_error>>
    /\ UNCHANGED notFraming

\* slip_reader: port.read returned b'' (the read timed out).
ReadTimeout ==
    /\ sr_state = "running"
    /\ read_bytes = <<>>
    /\ fr_error' = IF partial_packet = <<>>
                   THEN (IF successful_slip THEN "Serial data stream stopped"
                                            ELSE "No serial data received")
                   ELSE "Packet content transfer stopped"
    /\ sr_state' = "finished"
    /\ UNCHANGED <<fr_packet, fr_written, tx, wire, read_bytes, partial_packet,
                   in_escape, successful_slip, yielded>>
    /\ UNCHANGED notFraming

\* a slip: a byte other than the two escape codes after the escape byte is
\* taken as it is
ReadByteLenient ==
    /\ sr_state = "running"
    /\ read_bytes # <<>>
    /\ LET b == Head(read_bytes)
       IN
       /\ read_bytes' = Tail(read_bytes)
       /\ IF partial_packet = <<>>
          THEN IF b = SLIP_END
               THEN /\ partial_packet' = << <<>> >>
                    /\ UNCHANGED <<in_escape, successful_slip, sr_state,
                                   yielded, fr_error, wire>>
               ELSE \* port.read(port.inWaiting()) empties the port for the trace
                    /\ wire' = <<>>
                    /\ fr_error' = "Invalid head of packet"
                    /\ sr_state' = "finished"
                    /\ UNCHANGED <<partial_packet, in_escape, successful_slip,
                                   yielded>>
          ELSE IF in_escape
          THEN /\ in_escape' = FALSE
               /\ IF b = SLIP_ESC_END
                  THEN /\ partial_packet' = <<Append(partial_packet[1], SLIP_END)>>
                       /\ UNCHANGED <<successful_slip, sr_state, yielded,
                                      fr_error, wire>>
                  ELSE IF b = SLIP_ESC_ESC
                  THEN /\ partial_packet' = <<Append(partial_packet[1], SLIP_ESC)>>
                       /\ UNCHANGED <<successful_slip, sr_state, yielded,
                                      fr_error, wire>>
                  ELSE /\ partial_packet' = <<Append(partial_packet[1], b)>>
                       /\ UNCHANGED <<successful_slip, sr_state, yielded,
                                      fr_error, wire>>
          ELSE IF b = SLIP_ESC
          THEN /\ in_escape' = TRUE
               /\ UNCHANGED <<partial_packet, successful_slip, sr_state,
                              yielded, fr_error, wire>>
          ELSE IF b = SLIP_END
          THEN \* yield partial_packet: read() returns it and the generator
               \* is suspended; the two assignments after the yield run when
               \* it is resumed, before anything else reads them
               /\ yielded' = Append(yielded, partial_packet[1])
               /\ partial_packet' = <<>>
               /\ successful_slip' = TRUE
               /\ sr_state' = "suspended"
               /\ UNCHANGED <<in_escape, fr_error, wire>>
          ELSE /\ partial_packet' = <<Append(partial_packet[1], b)>>
               /\ UNCHANGED <<in_escape, successful_slip, sr_state, yielded,
                              fr_error, wire>>
    /\ UNCHANGED <<fr_packet, fr_written, tx>>
    /\ UNCHANGED notFraming

\* a slip: bytes before the first delimiter are passed over
ReadBytePassesNoise ==
    /\ sr_state = "running"
    /\ read_bytes # <<>>
    /\ LET b == Head(read_bytes)
       IN
       /\ read_bytes' = Tail(read_bytes)
       /\ IF partial_packet = <<>>
          THEN IF b = SLIP_END
               THEN /\ partial_packet' = << <<>> >>
                    /\ UNCHANGED <<in_escape, successful_slip, sr_state,
                                   yielded, fr_error, wire>>
               ELSE /\ UNCHANGED <<partial_packet, in_escape, successful_slip,
                                   sr_state, yielded, fr_error, wire>>
          ELSE IF in_escape
          THEN /\ in_escape' = FALSE
               /\ IF b = SLIP_ESC_END
                  THEN /\ partial_packet' = <<Append(partial_packet[1], SLIP_END)>>
                       /\ UNCHANGED <<successful_slip, sr_state, yielded,
                                      fr_error, wire>>
                  ELSE IF b = SLIP_ESC_ESC
                  THEN /\ partial_packet' = <<Append(partial_packet[1], SLIP_ESC)>>
                       /\ UNCHANGED <<successful_slip, sr_state, yielded,
                                      fr_error, wire>>
                  ELSE /\ wire' = <<>>
                       /\ fr_error' = "Invalid SLIP escape"
                       /\ sr_state' = "finished"
                       /\ UNCHANGED <<partial_packet, successful_slip, yielded>>
          ELSE IF b = SLIP_ESC
          THEN /\ in_escape' = TRUE
               /\ UNCHANGED <<partial_packet, successful_slip, sr_state,
                              yielded, fr_error, wire>>
          ELSE IF b = SLIP_END
          THEN \* yield partial_packet: read() returns it and the generator
               \* is suspended; the two assignments after the yield run when
               \* it is resumed, before anything else reads them
               /\ yielded' = Append(yielded, partial_packet[1])
               /\ partial_packet' = <<>>
               /\ successful_slip' = TRUE
               /\ sr_state' = "suspended"
               /\ UNCHANGED <<in_escape, fr_error, wire>>
          ELSE /\ partial_packet' = <<Append(partial_packet[1], b)>>
               /\ UNCHANGED <<in_escape, successful_slip, sr_state, yielded,
                              fr_error, wire>>
    /\ UNCHANGED <<fr_packet, fr_written, tx>>
    /\ UNCHANGED notFraming

\* slip_reader: one turn of "for b in read_bytes".
ReadByte ==
    /\ sr_state = "running"
    /\ read_bytes # <<>>
    /\ LET b == Head(read_bytes)
       IN
       /\ read_bytes' = Tail(read_bytes)
       /\ IF partial_packet = <<>>
          THEN IF b = SLIP_END
               THEN /\ partial_packet' = << <<>> >>
                    /\ UNCHANGED <<in_escape, successful_slip, sr_state,
                                   yielded, fr_error, wire>>
               ELSE \* port.read(port.inWaiting()) empties the port for the trace
                    /\ wire' = <<>>
                    /\ fr_error' = "Invalid head of packet"
                    /\ sr_state' = "finished"
                    /\ UNCHANGED <<partial_packet, in_escape, successful_slip,
                                   yielded>>
          ELSE IF in_escape
          THEN /\ in_escape' = FALSE
               /\ IF b = SLIP_ESC_END
                  THEN /\ partial_packet' = <<Append(partial_packet[1], SLIP_END)>>
                       /\ UNCHANGED <<successful_slip, sr_state, yielded,
                                      fr_error, wire>>
                  ELSE IF b = SLIP_ESC_ESC
                  THEN /\ partial_packet' = <<Append(partial_packet[1], SLIP_ESC)>>
                       /\ UNCHANGED <<successful_slip, sr_state, yielded,
                                      fr_error, wire>>
                  ELSE /\ wire' = <<>>
                       /\ fr_error' = "Invalid SLIP escape"
                       /\ sr_state' = "finished"
                       /\ UNCHANGED <<partial_packet, successful_slip, yielded>>
          ELSE IF b = SLIP_ESC
          THEN /\ in_escape' = TRUE
               /\ UNCHANGED <<partial_packet, successful_slip, sr_state,
                              yielded, fr_error, wire>>
          ELSE IF b = SLIP_END
          THEN \* yield partial_packet: read() returns it and the generator
               \* is suspended; the two assignments after the yield run when
               \* it is resumed, before anything else reads them
               /\ yielded' = Append(yielded, partial_packet[1])
               /\ partial_packet' = <<>>
               /\ successful_slip' = TRUE
               /\ sr_state' = "suspended"
               /\ UNCHANGED <<in_escape, fr_error, wire>>
          ELSE /\ partial_packet' = <<Append(partial_packet[1], b)>>
               /\ UNCHANGED <<in_escape, successful_slip, sr_state, yielded,
                              fr_error, wire>>
    /\ UNCHANGED <<fr_packet, fr_written, tx>>
    /\ UNCHANGED notFraming

FramingNext ==
    \/ \E packet \in Packets : Write(packet)
    \/ ReadCall
    \/ \E n \in 1..(2 * MaxLen + 2) : ReadChunk(n)
    \/ ReadTimeout
    \/ ReadByte

\* The device side of the link, and flush_input. The reader is followed on
\* what the device sends, whatever that is: `rx` are the raw bytes.
MaxRx == MaxLen + 1
\* what the device sends at a time: the delimiter, the escape byte, the
\* escape code of the delimiter and a plain byte, in any order
RawChunks == SeqsUpTo({SLIP_END, SLIP_ESC, SLIP_ESC_END, 1}, MaxLen) \ {<<>>}

\* the device puts raw bytes on the line; the port buffers them (the port
\* is not the looped-back one of WriteLoopback)
Receive(bytes) ==
    /\ ~fr_written
    /\ Len(rx) + Len(bytes) <= MaxRx
    /\ wire = <<>> /\ read_bytes = <<>>
    /\ wire' = wire \o bytes
    /\ rx' = rx \o bytes
    /\ UNCHANGED <<fr_packet, fr_written, tx, read_bytes, partial_packet,
                   in_escape, successful_slip, sr_state, yielded, fr_error,
                   flushed_after>>
    /\ UNCHANGED notLink

\* ESPLoader.write(packet) on a looped-back port, the device silent
WriteLoopback(packet) ==
    /\ rx = <<>>
    /\ Write(packet)

\* ESPLoader.flush_input(): self._port.flushInput() drops what the port has
\* buffered, and self._slip_reader is a new generator, which has not run yet:
\* its partial_packet is None, its in_escape and successful_slip are False.
\* The caller is single-threaded: no read() is running. `yielded` starts
\* again with the new generator.
FlushInput ==
    /\ sr_state # "running"
    /\ wire' = <<>>
    /\ read_bytes' = <<>>
    /\ partial_packet' = <<>>
    /\ in_escape' = FALSE
    /\ successful_slip' = FALSE
    /\ sr_state' = "suspended"
    /\ rx' = <<>>
    /\ yielded' = <<>>
    /\ flushed_after' = fr_error
    /\ UNCHANGED <<fr_packet, fr_written, tx, fr_error>>
    /\ UNCHANGED notLink

\* the reader on what the device sends
LinkNext ==
    \/ \E bytes \in RawChunks : Receive(bytes)
    \/ FlushInput
    \/ ReadCall
    \/ \E n \in 1..MaxRx : ReadChunk(n)
    \/ ReadTimeout
    \/ ReadByte

\* the payloads written on the looped-back port: the three bytes of
\* scenario A, and the special bytes and a plain byte alone
LoopbackPackets ==
    {<<SLIP_END, SLIP_ESC, SLIP_END>>, <<SLIP_END>>, <<SLIP_ESC>>, <<1>>}

\* the link with both of its ends: what the device sends, and what write()
\* sends on a looped-back port
LoopbackNext ==
    \/ \E bytes \in RawChunks : Receive(bytes)
    \/ \E packet \in LoopbackPackets : WriteLoopback(packet)
    \/ FlushInput
    \/ ReadCall
    \/ \E n \in 1..MaxRx : ReadChunk(n)
    \/ ReadTimeout
    \/ ReadByte

\* ------------------------------------------------------------------------
\* Command channel: ESPLoader.command, check_command, flush_input, sync
\* ------------------------------------------------------------------------

ESP_SYNC == 8
ESP_READ_REG == 10
ROM_INVALID_RECV_MSG == 5
\* range(100) in ESPLoader.command
COMMAND_RETRIES == 100
\* the length of the header struct.pack('<BBHI', ...) builds
HEADER_LEN == 8
\* range(7) in ESPLoader.sync
SYNC_DRAIN_READS == 7

\* op=None
NoOp == -1
NoFrame == [plen |-> -1, resp |-> 0, op_ret |-> 0, val |-> 0, data |-> <<>>]
NoResult == [val |-> -1, data |-> <<>>]

\* STATUS_BYTES_LENGTH of ESPLoader (ESP8266, stubs) and of ESP32ROM
StatusLengths == {2, 4}

Bodies == SeqsUpTo({0, ROM_INVALID_RECV_MSG}, MaxBody)

\* a frame read() returns, as struct.unpack('<BBHI', p[:8]) and p[8:] see it:
\* plen is len(p), and the fields of a frame shorter than the header are unused
ShortFrames ==
    {[plen |-> n, resp |-> 0, op_ret |-> 0, val |-> 0, data |-> <<>>] : n \in {0, HEADER_LEN - 1}}

RequestFrames ==
    {[plen |-> HEADER_LEN + Len(d), resp |-> 0, op_ret |-> o, val |-> 0, data |-> d] :
        o \in {ESP_SYNC, ESP_READ_REG}, d \in {<<>>, <<ROM_INVALID_RECV_MSG, ROM_INVALID_RECV_MSG>>}}

ResponseFrames ==
    {[plen |-> HEADER_LEN + Len(d), resp |-> 1, op_ret |-> o, val |-> v, data |-> d] :
        o \in {ESP_SYNC, ESP_READ_REG}, v \in {0, 1}, d \in Bodies}

Frames == ShortFrames \cup RequestFrames \cup ResponseFrames

\* the frames the device sends while sync() runs
SyncFrames ==
    {f \in Frames : \/ f.plen = HEADER_LEN - 1
                    \/ f.resp = 0 /\ f.data = <<>> /\ f.op_ret = ESP_SYNC
                    \/ f.resp = 1 /\ f.data = <<0, 0>>
                    \/ f.resp = 1 /\ f.op_ret = ESP_READ_REG /\ f.val = 0
                       /\ f.data \in {<<>>, <<ROM_INVALID_RECV_MSG, ROM_INVALID_RECV_MSG>>}}

\* the frames the device sends while the timeout of the port is followed:
\* one shorter than the header, requests, and responses whose body is empty,
\* a status, or the ROM's "invalid message" status
TimeoutFrames ==
    {f \in Frames : \/ f.plen = HEADER_LEN - 1
                    \/ f.resp = 0 /\ f.data = <<>>
                    \/ f.resp = 1 /\ f.val = 0
                       /\ f.data \in {<<>>, <<0, 0>>,
                                      <<ROM_INVALID_RECV_MSG, ROM_INVALID_RECV_MSG>>}}

\* Scenario B's response: status=0, opcode_echo=0x08, value=0
MockFrame == [plen |-> HEADER_LEN + 2, resp |-> 1, op_ret |-> ESP_SYNC, val |-> 0,
              data |-> <<0, 0>>]

\* struct.pack('<BBHI', 0x00, op, len(data), chk) + data
Packet(op, data, chk) ==
    <<0, op, Len(data) % 256, Len(data) \div 256,
      chk % 256, (chk \div 256) % 256, (chk \div 65536) % 256, chk \div 16777216>>
    \o data

\* the payload of the sync command: b'\x07\x07\x12\x20' + 32 * b'\x55'
SyncPayload == <<7, 7, 18, 32>> \o [i \in 1..32 |-> 85]

Skip == [kind |-> "skip", val |-> -1, data |-> <<>>]

\* a slip: the status of every response is examined before its opcode
CommandFrameStatusFirst(op, f) ==
    IF f.plen < HEADER_LEN THEN Skip
    ELSE IF f.resp # 1 THEN Skip
    ELSE IF Len(f.data) >= 2 /\ f.data[1] # 0 /\ f.data[2] = ROM_INVALID_RECV_MSG
         THEN [kind |-> "UnsupportedCommandError", val |-> -1, data |-> <<>>]
    ELSE IF op = NoOp \/ f.op_ret = op
         THEN [kind |-> "return", val |-> f.val, data |-> f.data]
    ELSE Skip

\* a slip: a response is returned whatever opcode it echoes
CommandFrameAnyOp(op, f) ==
    IF f.plen < HEADER_LEN THEN Skip
    ELSE IF f.resp # 1 THEN Skip
    ELSE [kind |-> "return", val |-> f.val, data |-> f.data]

\* one turn of the retry loop of ESPLoader.command on the frame p = f:
\* continue (skip), return val, data, or raise
CommandFrame(op, f) ==
    IF f.plen < HEADER_LEN THEN Skip
    ELSE IF f.resp # 1 THEN Skip
    ELSE IF op = NoOp \/ f.op_ret = op
         THEN [kind |-> "return", val |-> f.val, data |-> f.data]
    \* byte(data, 0) != 0 and byte(data, 1) == self.ROM_INVALID_RECV_MSG,
    \* where byte(bitstr, index) is bitstr[index]
    ELSE IF Len(f.data) < 1
         THEN [kind |-> "IndexError", val |-> -1, data |-> <<>>]
    ELSE IF f.data[1] = 0 THEN Skip
    ELSE IF Len(f.data) < 2
         THEN [kind |-> "IndexError", val |-> -1, data |-> <<>>]
    ELSE IF f.data[2] = ROM_INVALID_RECV_MSG
         THEN [kind |-> "UnsupportedCommandError", val |-> -1, data |-> <<>>]
    ELSE Skip

\* a slip: the status bytes are taken from the head of the body
CheckResultHead(val, data, sbl) ==
    IF Len(data) < sbl
    THEN [kind |-> "FatalError: Only got status response", status |-> <<>>, result |-> <<>>]
    ELSE IF data[1] # 0
    THEN [kind |-> "FatalError: Failed to", status |-> SubSeq(data, 1, sbl), result |-> <<>>]
    ELSE IF Len(data) > sbl
    THEN [kind |-> "return", status |-> <<>>, result |-> <<"data", SubSeq(data, sbl + 1, Len(data))>>]
    ELSE [kind |-> "return", status |-> <<>>, result |-> <<"val", val>>]

\* ESPLoader.check_command after command() returned val, data
CheckResult(val, data, sbl) ==
    IF Len(data) < sbl
    THEN [kind |-> "FatalError: Only got status response", status |-> <<>>, result |-> <<>>]
    ELSE LET status_bytes == SubSeq(data, Len(data) - sbl + 1, Len(data))
         IN  IF status_bytes[1] # 0
             THEN [kind |-> "FatalError: Failed to", status |-> status_bytes, result |-> <<>>]
             ELSE IF Len(data) > sbl
             THEN [kind |-> "return", status |-> <<>>,
                   result |-> <<"data", SubSeq(data, 1, Len(data) - sbl)>>]
             ELSE [kind |-> "return", status |-> <<>>, result |-> <<"val", val>>]

\* Timeouts are in milliseconds. DEFAULT_TIMEOUT = 3, SYNC_TIMEOUT = 0.1 and
\* MAX_TIMEOUT = CHIP_ERASE_TIMEOUT * 2 = 240 seconds
DEFAULT_TIMEOUT == 3000
SYNC_TIMEOUT == 100
MAX_TIMEOUT == 240000
ERASE_WRITE_TIMEOUT_PER_MB == 40000
\* timeout_per_mb(ERASE_WRITE_TIMEOUT_PER_MB, 16 MB): 40 seconds for each of
\* 16 megabytes, a request above MAX_TIMEOUT
LONG_TIMEOUT == 16 * ERASE_WRITE_TIMEOUT_PER_MB
\* the timeout None of a port serial.serial_for_url(port) opened
NoTimeout == -1

\* the timeouts the callers of command() ask for
Timeouts == {SYNC_TIMEOUT, DEFAULT_TIMEOUT, LONG_TIMEOUT}
\* the timeouts of the port objects a loader may be constructed on
PortTimeouts == {NoTimeout, DEFAULT_TIMEOUT}

TimeoutIdle ==
    [port |-> NoTimeout, entry |-> NoTimeout, timeout |-> DEFAULT_TIMEOUT,
     saved |-> NoTimeout, new |-> DEFAULT_TIMEOUT, during |-> NoTimeout]

\* command(): saved_timeout, new_timeout and the assignment under
\* `if new_timeout != saved_timeout`
EnterCommand(t, timeout) ==
    LET saved_timeout == t.port
        new_timeout == IF timeout < MAX_TIMEOUT THEN timeout ELSE MAX_TIMEOUT
        port == IF new_timeout # saved_timeout THEN new_timeout ELSE t.port
    IN  [port |-> port, entry |-> t.port, timeout |-> timeout,
         saved |-> saved_timeout, new |-> new_timeout, during |-> port]

\* a slip: the timeout is not put back
LeaveCommandKeep(t) == t

\* command(): the finally clause
LeaveCommand(t) ==
    [t EXCEPT !.port = IF t.new # t.saved THEN t.saved ELSE t.port]

CommandInit ==
    /\ tm = TimeoutIdle
    /\ cm_caller = "none"
    /\ cm_pc = "idle"
    /\ cm_op = NoOp
    /\ cm_sent = <<>>
    /\ cm_retry = 0
    /\ cm_frame = NoFrame
    /\ cm_outcome = ""
    /\ cm_result = NoResult
    /\ cm_flushes = 0
    /\ ck_sbl = 2
    /\ ck_outcome = ""
    /\ ck_result = <<>>
    /\ sync_stub_detected = FALSE
    /\ sy_phase = 0
    /\ sy_vals = <<>>
    /\ sy_sent = <<>>
    /\ sy_mock = TRUE

\* a slip: the sense of the test is inverted
SyncFoldInverted(detected, phase, val) ==
    IF phase = 0 THEN val # 0 ELSE detected /\ (val # 0)

\* a slip: sync_stub_detected = val == 0 in the drain loop instead of &=
SyncFoldLast(detected, phase, val) == val = 0

\* sync(): sync_stub_detected = val == 0 for the sync response, and
\* sync_stub_detected &= val == 0 for each drain read
SyncFold(detected, phase, val) ==
    IF phase = 0 THEN val = 0 ELSE detected /\ (val = 0)

\* What the caller does when its command() ends with `kind`, having read
\* `retry` frames. command: nothing more. check_command: checks the status
\* bytes. sync: folds val into sync_stub_detected and runs the next drain read.
Finish(kind, val, data, retry) ==
    /\ cm_outcome' = kind
    \* every way out of command() runs the finally clause; sync() then enters
    \* its next command() with the default timeout
    /\ tm' = IF cm_caller = "sync" /\ kind = "return"
                 /\ sy_phase + 1 # 1 + SYNC_DRAIN_READS
             THEN EnterCommand(LeaveCommand(tm), DEFAULT_TIMEOUT)
             ELSE LeaveCommand(tm)
    /\ cm_result' = IF kind = "return" THEN [val |-> val, data |-> data] ELSE NoResult
    /\ IF cm_caller = "check_command"
       THEN LET r == CheckResult(val, data, ck_sbl)
            IN  /\ ck_outcome' = IF kind = "return" THEN r.kind ELSE kind
                /\ ck_result' = IF kind = "return"
                                THEN (IF r.kind = "return" THEN r.result ELSE r.status)
                                ELSE <<>>
                /\ cm_pc' = "done"
                /\ cm_retry' = retry
                /\ UNCHANGED <<cm_op, sync_stub_detected, sy_phase, sy_vals>>
       ELSE IF cm_caller = "sync" /\ kind = "return"
       THEN /\ sync_stub_detected' = SyncFold(sync_stub_detected, sy_phase, val)
            /\ sy_vals' = Append(sy_vals, val)
            /\ sy_phase' = sy_phase + 1
            /\ IF sy_phase + 1 = 1 + SYNC_DRAIN_READS
               THEN /\ cm_pc' = "done"
                    /\ cm_retry' = retry
                    /\ UNCHANGED cm_op
               ELSE \* self.command(): op=None, nothing is written
                    /\ cm_pc' = "reading"
                    /\ cm_op' = NoOp
                    /\ cm_retry' = 0
            /\ UNCHANGED <<ck_outcome, ck_result>>
       ELSE /\ cm_pc' = "done"
            /\ cm_retry' = retry
            /\ UNCHANGED <<cm_op, ck_outcome, ck_result,
                           sync_stub_detected, sy_phase, sy_vals>>

\* the state a call starts from; the model follows one call of the channel
StartCall(caller, op, packet) ==
    /\ cm_pc = "idle"
    /\ cm_caller' = caller
    /\ cm_op' = op
    /\ cm_sent' = packet
    /\ cm_retry' = 0
    /\ cm_frame' = NoFrame
    /\ cm_outcome' = ""
    /\ cm_result' = NoResult
    /\ cm_flushes' = 0
    /\ ck_outcome' = ""
    /\ ck_result' = <<>>
    /\ sy_phase' = 0
    /\ sy_vals' = <<>>
    /\ sy_mock' = TRUE

\* ESPLoader.command(op, data, chk, wait_response) up to its first read
CommandCall(op, data, wait_response, timeout) ==
    /\ StartCall("command", op, IF op = NoOp THEN <<>> ELSE Packet(op, data, 0))
    /\ IF wait_response
       THEN /\ cm_pc' = "reading"
            /\ tm' = EnterCommand(tm, timeout)
       ELSE \* `return` inside the try: the finally clause runs
            /\ cm_pc' = "done"
            /\ tm' = LeaveCommand(EnterCommand(tm, timeout))
    /\ UNCHANGED <<ck_sbl, sync_stub_detected, sy_sent>>
    /\ UNCHANGED notCommand

\* ESPLoader.check_command(op_description, op, data) up to the first read of
\* its command(), on a loader whose STATUS_BYTES_LENGTH is sbl
CheckCommandCall(op, data, sbl, timeout) ==
    /\ StartCall("check_command", op, IF op = NoOp THEN <<>> ELSE Packet(op, data, 0))
    /\ cm_pc' = "reading"
    /\ tm' = EnterCommand(tm, timeout)
    /\ ck_sbl' = sbl
    /\ UNCHANGED <<sync_stub_detected, sy_sent>>
    /\ UNCHANGED notCommand

\* ESPLoader.sync() up to the first read of its first command()
SyncCall ==
    /\ StartCall("sync", ESP_SYNC, Packet(ESP_SYNC, SyncPayload, 0))
    /\ cm_pc' = "reading"
    /\ tm' = EnterCommand(tm, SYNC_TIMEOUT)
    /\ sy_sent' = Packet(ESP_SYNC, SyncPayload, 0)
    /\ UNCHANGED <<ck_sbl, sync_stub_detected>>
    /\ UNCHANGED notCommand

\* what the model remembers of a frame the loop passed over: its header
PassedOver(f) ==
    [f EXCEPT !.plen = IF f.plen < HEADER_LEN THEN f.plen ELSE HEADER_LEN,
              !.val = 0, !.data = <<>>]

\* command(): p = self.read() returned the frame f, and the loop body ran on
\* it; the loop ends after COMMAND_RETRIES frames
ReadFrame(f) ==
    /\ cm_pc = "reading"
    /\ cm_retry < COMMAND_RETRIES
    /\ cm_frame' = IF CommandFrame(cm_op, f).kind = "skip" THEN PassedOver(f) ELSE f
    /\ sy_mock' = (sy_mock /\ f = MockFrame)
    /\ LET r == CommandFrame(cm_op, f)
       IN  IF r.kind = "skip"
           THEN IF cm_retry + 1 = COMMAND_RETRIES
                THEN /\ Finish("FatalError: Response doesn't match request", -1, <<>>,
                               cm_retry + 1)
                     /\ UNCHANGED cm_flushes
                ELSE /\ cm_retry' = cm_retry + 1
                     /\ UNCHANGED <<cm_pc, cm_op, cm_outcome, cm_result, cm_flushes,
                                    ck_outcome, ck_result, sync_stub_detected,
                                    sy_phase, sy_vals, tm>>
           ELSE /\ Finish(r.kind, r.val, r.data, cm_retry + 1)
                \* self.flush_input() before UnsupportedCommandError is raised
                /\ cm_flushes' = IF r.kind = "UnsupportedCommandError"
                                 THEN cm_flushes + 1 ELSE cm_flushes
    /\ UNCHANGED <<cm_caller, cm_sent, ck_sbl, sy_sent>>
    /\ UNCHANGED notCommand

\* command(): self.read() raised (slip_reader's FatalError: no data, the
\* stream stopped, or invalid data)
ReadFail ==
    /\ cm_pc = "reading"
    /\ cm_retry < COMMAND_RETRIES
    /\ sy_mock' = FALSE
    /\ Finish("FatalError: read", -1, <<>>, cm_retry)
    /\ UNCHANGED <<cm_caller, cm_sent, cm_frame, cm_flushes, ck_sbl, sy_sent>>
    /\ UNCHANGED notCommand

\* ESPLoader(port) with a port object whose read timeout is t
\* (`self._port = port`)
PortGiven(t) ==
    /\ cm_pc = "idle"
    /\ tm.port # t
    /\ tm' = [TimeoutIdle EXCEPT !.port = t, !.entry = t, !.saved = t,
                                  !.during = t]
    /\ UNCHANGED <<cm_caller, cm_pc, cm_op, cm_sent, cm_retry, cm_frame,
                   cm_outcome, cm_result, cm_flushes, ck_sbl, ck_outcome,
                   ck_result, sync_stub_detected, sy_phase, sy_vals, sy_sent,
                   sy_mock>>
    /\ UNCHANGED notCommand

\* the callers of CommandNext leave the timeout argument at its default
CommandNext ==
    \/ \E op \in {NoOp, ESP_SYNC}, wait_response \in BOOLEAN :
          CommandCall(op, <<0, 0, 0, 0>>, wait_response, DEFAULT_TIMEOUT)
    \/ \E sbl \in StatusLengths :
          CheckCommandCall(ESP_READ_REG, <<0, 0, 0, 0>>, sbl, DEFAULT_TIMEOUT)
    \/ \E f \in Frames : ReadFrame(f)
    \/ ReadFail

\* command() and check_command() with every timeout, on every port
TimeoutNext ==
    \/ \E t \in PortTimeouts : PortGiven(t)
    \/ \E op \in {NoOp, ESP_READ_REG}, wait_response \in BOOLEAN,
          timeout \in Timeouts :
          CommandCall(op, <<0, 0, 0, 0>>, wait_response, timeout)
    \/ \E timeout \in Timeouts :
          CheckCommandCall(ESP_READ_REG, <<0, 0, 0, 0>>, 2, timeout)
    \/ \E f \in TimeoutFrames : ReadFrame(f)
    \/ ReadFail

SyncNext ==
    \/ SyncCall
    \/ \E f \in SyncFrames : ReadFrame(f)
    \/ ReadFail

\* ------------------------------------------------------------------------
\* Flash writer: write_flash, flash_begin, flash_defl_begin, flash_block,
\* flash_defl_block, flash_encrypt_block, flash_md5sum
\* ------------------------------------------------------------------------

WRITE_BLOCK_ATTEMPTS == 3
ROM_FLASH_WRITE_SIZE == 1024
STUB_FLASH_WRITE_SIZE == 16384
ESP_FLASH_DATA == 3
ESP_FLASH_DEFL_DATA == 17
ESP_FLASH_ENCRYPT_DATA == 212
\* pad_to(argfile.read(), ... 4)
IMAGE_ALIGN == 4

\* The loader classes, by what write_flash and the flash commands ask of them:
\* IS_STUB; esp32: isinstance(self, ESP32ROM); rom_enc: isinstance(self,
\* (ESP32S2ROM, ESP32C3ROM, ESP32S3ROM, ESP32H2ROM, ESP32C2ROM));
\* FLASH_WRITE_SIZE; enc_align: FLASH_ENCRYPTED_WRITE_ALIGN, 0 where the class
\* has none
Profiles ==
    { [name |-> "ESP8266ROM", IS_STUB |-> FALSE, esp32 |-> FALSE, rom_enc |-> FALSE,
       FLASH_WRITE_SIZE |-> ROM_FLASH_WRITE_SIZE, enc_align |-> 0],
      [name |-> "ESP8266StubLoader", IS_STUB |-> TRUE, esp32 |-> FALSE, rom_enc |-> FALSE,
       FLASH_WRITE_SIZE |-> STUB_FLASH_WRITE_SIZE, enc_align |-> 0],
      [name |-> "ESP32ROM", IS_STUB |-> FALSE, esp32 |-> TRUE, rom_enc |-> FALSE,
       FLASH_WRITE_SIZE |-> ROM_FLASH_WRITE_SIZE, enc_align |-> 32],
      [name |-> "ESP32StubLoader", IS_STUB |-> TRUE, esp32 |-> TRUE, rom_enc |-> FALSE,
       FLASH_WRITE_SIZE |-> STUB_FLASH_WRITE_SIZE, enc_align |-> 32],
      [name |-> "ESP32S2ROM", IS_STUB |-> FALSE, esp32 |-> TRUE, rom_enc |-> TRUE,
       FLASH_WRITE_SIZE |-> ROM_FLASH_WRITE_SIZE, enc_align |-> 16],
      [name |-> "ESP32S2StubLoader", IS_STUB |-> TRUE, esp32 |-> TRUE, rom_enc |-> TRUE,
       FLASH_WRITE_SIZE |-> STUB_FLASH_WRITE_SIZE, enc_align |-> 16] }

\* the file lengths the model draws from: empty, shorter than IMAGE_ALIGN,
\* one block of the ROM loader, one byte more, scenario C's 10,000 bytes, and
\* more than one block of a stub
FileSizes == {0, 1, 1024, 1025, 10000, 20000}

\* the lengths zlib.compress(uncimage, 9) may return
CompressedSizes == {12, 2500}

\* how a check_command or a read_reg may end: it returns, or raises a
\* FatalError, or one of the two exceptions of command() that are no FatalError
FatalErrors == {"FatalError: Failed to", "FatalError: read"}
CommandOutcomes == {"return"} \cup FatalErrors \cup {"UnsupportedCommandError", "IndexError"}
\* "FatalError: read" comes out of slip_reader, and a generator that raised
\* is finished: unless flush_input() makes a new one, the next read() on the
\* loader raises StopIteration, which is no FatalError
READER_FINISHED == "StopIteration"
BlockOutcomes == CommandOutcomes \cup {READER_FINISHED}

\* the address of the i-th file of all_files, which is sorted by address
FileAddress(i) == 4096 + 65536 * i

NoFile == [address |-> 0, size |-> 0, encrypted |-> FALSE, patched |-> FALSE]
NoCommand == [cmd |-> "", size |-> 0, num_blocks |-> 0, offset |-> 0]

Min(a, b) == IF a < b THEN a ELSE b

\* pad_to(data, alignment), on lengths
PadTo(len, alignment) ==
    IF len % alignment # 0 THEN len + (alignment - (len % alignment)) ELSE len

\* a slip: the number of blocks is rounded down
FlashBeginBlocksFloor(size, flash_write_size) == size \div flash_write_size

\* flash_begin: num_blocks
FlashBeginBlocks(size, flash_write_size) ==
    (size + flash_write_size - 1) \div flash_write_size

\* flash_defl_begin: num_blocks
FlashDeflBeginBlocks(compsize, flash_write_size) ==
    (compsize + flash_write_size - 1) \div flash_write_size

\* hashlib.md5(image).hexdigest() of the padded image read for `address`,
\* patched or as read, as a token: two digests are equal exactly when they
\* are of the same buffer
Md5Of(address, patched) == <<"md5", address, patched>>

\* calcmd5 = hashlib.md5(image).hexdigest(), after _update_image_flash_params
CalcMd5(file) == Md5Of(file.address, file.patched)

\* a slip: the digest is asked for the block-padded range
Md5RequestWritten(address, uncsize, bytes_written) ==
    [addr |-> address, size |-> bytes_written]

\* esp.flash_md5sum(address, uncsize)
Md5Request(address, uncsize, bytes_written) ==
    [addr |-> address, size |-> uncsize]

\* the digest of something else than the image
OtherMd5 == <<"md5", -1, FALSE>>

\* what flash_md5sum may get from check_command: the image's digest or
\* another (32 or 16 bytes), bytes of another length, or the header's value
\* when the body held the status bytes only
BadLength == <<"bad length">>

HeaderVal == <<"val">>

Md5Replies(calcmd5) == {calcmd5, OtherMd5, BadLength, HeaderVal}

\* a slip: the retry loop goes on after any exception
RetriesAny(outcome) == outcome # "return"

\* flash_block, flash_defl_block, flash_encrypt_block: "except FatalError"
Retries(outcome) == outcome \in FatalErrors

\* the opcode flash_block, flash_defl_block or flash_encrypt_block sends
BlockOp(profile, compress, encrypted) ==
    IF compress THEN ESP_FLASH_DEFL_DATA
    ELSE IF encrypted /\ ~(profile.rom_enc /\ ~profile.IS_STUB)
         THEN ESP_FLASH_ENCRYPT_DATA
    ELSE ESP_FLASH_DATA

\* the function write_flash calls for a block
BlockFn(compress, encrypted) ==
    IF compress THEN "flash_defl_block"
    ELSE IF encrypted THEN "flash_encrypt_block"
    ELSE "flash_block"

\* a slip: an encrypted file is compressed like the others
CompressForAll(compress_arg, encrypted) == compress_arg

\* write_flash: compress = args.compress, and compress = False under
\* `if compress and encrypted`
CompressFor(compress_arg, encrypted) ==
    IF compress_arg /\ encrypted THEN FALSE ELSE compress_arg

\* stub_and_esp32_function_only
StubOrEsp32(profile) == profile.IS_STUB \/ profile.esp32

FlashInitWith(profile, secure, compress, nfiles) ==
    /\ esp = profile
    /\ esp_secure = secure
    /\ args_compress = compress
    /\ wf_nfiles = nfiles
    /\ wf = [pc |-> "next_file", index |-> 0, file |-> NoFile, compress |-> FALSE,
             uncsize |-> 0, total |-> 0, left |-> 0, calcmd5 |-> <<>>,
             begin |-> NoCommand, blocks |-> 0, seq |-> 0, bytes_sent |-> 0,
             bytes_written |-> 0, all_full |-> TRUE,
             attempts_left |-> WRITE_BLOCK_ATTEMPTS - 1, att |-> <<>>,
             loop_done |-> FALSE, md5 |-> <<>>, md5_res |-> <<>>, status |-> "",
             file_done |-> FALSE, begun |-> <<>>, finish |-> <<>>, log |-> <<>>,
             error |-> ""]

\* write_flash is entered with some loader, some arguments and 1..MaxFiles
\* files; only the loaders of ESP32 and later chips in ROM mode can be in
\* secure download mode
FlashInit ==
    \E profile \in Profiles, secure \in BOOLEAN, compress \in BOOLEAN,
       nfiles \in 1..MaxFiles :
        /\ secure => (profile.esp32 /\ ~profile.IS_STUB)
        /\ FlashInitWith(profile, secure, compress, nfiles)

\* the flash writer at rest, in the specifications of the other layers
FlashIdle ==
    FlashInitWith(CHOOSE profile \in Profiles : profile.name = "ESP32ROM",
                  FALSE, FALSE, 1)

\* where write_flash goes after the last file: "Leaving..."
AfterFiles == IF esp.IS_STUB THEN "leave_begin" ELSE "done"

AfterFile(index) == IF index = wf_nfiles THEN AfterFiles ELSE "next_file"

\* a slip: the loop goes on with the next file after an exception
RaiseAndGoOn(error) == wf' = [wf EXCEPT !.pc = AfterFile(wf.index), !.error = error]

\* an exception leaves write_flash: nothing in it catches one, but for the
\* NotImplementedInROMError of flash_md5sum
Raise(error) == wf' = [wf EXCEPT !.pc = "raised", !.error = error]

\* the head of the for loop over all_files, up to the begin command: the i-th
\* file has `size` bytes, is to be encrypted or not, _update_image_flash_params
\* changes it or not, and compresses to `csize` bytes
NextFile(size, encrypted, patched, csize) ==
    /\ wf.pc = "next_file"
    /\ wf.index < wf_nfiles
    /\ encrypted => esp.enc_align > 0
    /\ LET compress == CompressFor(args_compress, encrypted)
           file == [address |-> FileAddress(wf.index), size |-> size,
                    encrypted |-> encrypted, patched |-> patched]
           len == PadTo(size, IF encrypted THEN esp.enc_align ELSE IMAGE_ALIGN)
           sent == IF compress THEN csize ELSE len
       IN  IF len = 0
           THEN \* 'WARNING: File %s is empty': continue
                /\ ~patched /\ csize = 12
                /\ wf' = [wf EXCEPT !.index = @ + 1, !.pc = AfterFile(wf.index + 1)]
           ELSE /\ compress \/ csize = 12
                /\ wf' = [wf EXCEPT
                            !.index = @ + 1, !.pc = "begin", !.file = file,
                            !.compress = compress, !.uncsize = len,
                            !.total = sent, !.left = sent,
                            !.calcmd5 = CalcMd5(file),
                            !.begin = NoCommand, !.blocks = 0, !.seq = 0,
                            !.bytes_sent = 0, !.bytes_written = 0,
                            !.all_full = TRUE,
                            !.attempts_left = WRITE_BLOCK_ATTEMPTS - 1,
                            !.att = <<>>, !.loop_done = FALSE, !.md5 = <<>>,
                            !.md5_res = <<>>, !.status = "", !.file_done = FALSE,
                            !.log = <<>>]
    /\ UNCHANGED <<esp, esp_secure, args_compress, wf_nfiles>>
    /\ UNCHANGED notFlash

\* a command write_flash has sent for the file at hand, as wf.log records
\* it: the function called and, for a block, its sequence number, the offset
\* of its data in the image and its length
Sent(cmd, seq, lo, len) == [cmd |-> cmd, seq |-> seq, lo |-> lo, len |-> len]

\* blocks = esp.flash_defl_begin(uncsize, len(image), address) or
\* blocks = esp.flash_begin(uncsize, address, begin_rom_encrypted=encrypted):
\* the check_command of the begin command ends with `outcome`
Begin(outcome) ==
    /\ wf.pc = "begin"
    /\ IF wf.compress /\ ~StubOrEsp32(esp)
       THEN /\ outcome = "return"
            /\ Raise("NotImplementedInROMError")
       ELSE LET fws == esp.FLASH_WRITE_SIZE
                cmd == IF wf.compress
                       THEN [cmd |-> "flash_defl_begin", size |-> wf.uncsize,
                             num_blocks |-> FlashDeflBeginBlocks(wf.total, fws),
                             offset |-> wf.file.address]
                       ELSE [cmd |-> "flash_begin", size |-> wf.uncsize,
                             num_blocks |-> FlashBeginBlocks(wf.uncsize, fws),
                             offset |-> wf.file.address]
                begun == Append(wf.begun, [encrypted |-> wf.file.encrypted,
                                           cmd |-> cmd.cmd])
                log == Append(wf.log, Sent(cmd.cmd, 0, 0, 0))
            IN  IF outcome = "return"
                THEN wf' = [wf EXCEPT !.begin = cmd, !.blocks = cmd.num_blocks,
                                      !.begun = begun, !.log = log, !.pc = "block"]
                ELSE wf' = [wf EXCEPT !.begin = cmd, !.begun = begun, !.log = log,
                                      !.pc = "raised", !.error = outcome]
    /\ UNCHANGED <<esp, esp_secure, args_compress, wf_nfiles>>
    /\ UNCHANGED notFlash

\* a slip: no register read after the last block
AfterBlockNoFlush(left) == IF left > 0 THEN "block" ELSE "md5"

\* where write_flash goes after a block: `while len(image) > 0`, then
\* `if esp.IS_STUB: esp.read_reg(...)`, then the MD5 check
AfterBlock(left) ==
    IF left > 0 THEN "block" ELSE IF esp.IS_STUB THEN "stub_flush" ELSE "md5"

\* one attempt of flash_block, flash_defl_block or flash_encrypt_block on
\* the block at the head of image: its check_command ends with `outcome`.
\* When the attempt succeeds the loop body runs to its end.
BlockAttempt(outcome) ==
    /\ wf.pc = "block"
    \* the retry loops do not flush the input: the attempt after one whose
    \* read failed finds the generator finished
    /\ (outcome = READER_FINISHED)
       = (/\ wf.attempts_left < WRITE_BLOCK_ATTEMPTS - 1
          /\ wf.att[Len(wf.att)].outcome = "FatalError: read")
    /\ LET fws == esp.FLASH_WRITE_SIZE
           cut == Min(wf.left, fws)
           \* block = block + b'\xff' * (esp.FLASH_WRITE_SIZE - len(block))
           pad == IF wf.compress THEN 0 ELSE fws - cut
           attempt == [op |-> BlockOp(esp, wf.compress, wf.file.encrypted),
                       fn |-> BlockFn(wf.compress, wf.file.encrypted),
                       seq |-> wf.seq, lo |-> wf.total - wf.left,
                       len |-> cut + pad, pad |-> pad, outcome |-> outcome]
           att == IF wf.attempts_left = WRITE_BLOCK_ATTEMPTS - 1
                  THEN <<attempt>> ELSE Append(wf.att, attempt)
           \* the attempts of one block send the same command: the log has it once
           log == IF wf.attempts_left = WRITE_BLOCK_ATTEMPTS - 1
                  THEN Append(wf.log, Sent(attempt.fn, attempt.seq, attempt.lo,
                                           attempt.len))
                  ELSE wf.log
       IN  IF outcome = "return"
           THEN wf' = [wf EXCEPT
                         !.att = att, !.log = log,
                         !.attempts_left = WRITE_BLOCK_ATTEMPTS - 1,
                         !.bytes_written = IF wf.compress THEN @ ELSE @ + cut + pad,
                         !.bytes_sent = @ + cut + pad,
                         !.all_full = @ /\ (cut + pad = fws),
                         !.left = @ - cut,
                         !.seq = @ + 1,
                         !.loop_done = (wf.left - cut = 0),
                         !.pc = AfterBlock(wf.left - cut)]
           ELSE IF Retries(outcome) /\ wf.attempts_left > 0
           THEN wf' = [wf EXCEPT !.att = att, !.log = log, !.attempts_left = @ - 1]
           ELSE wf' = [wf EXCEPT !.att = att, !.log = log, !.pc = "raised",
                                 !.error = outcome]
    /\ UNCHANGED <<esp, esp_secure, args_compress, wf_nfiles>>
    /\ UNCHANGED notFlash

\* if esp.IS_STUB: esp.read_reg(ESPLoader.CHIP_DETECT_MAGIC_REG_ADDR, ...)
StubFlush(outcome) ==
    /\ wf.pc = "stub_flush"
    /\ LET log == Append(wf.log, Sent("read_reg", 0, 0, 0))
       IN  IF outcome = "return"
           THEN wf' = [wf EXCEPT !.log = log, !.pc = "md5"]
           ELSE wf' = [wf EXCEPT !.log = log, !.pc = "raised", !.error = outcome]
    /\ UNCHANGED <<esp, esp_secure, args_compress, wf_nfiles>>
    /\ UNCHANGED notFlash

\* the end of the loop body when no MD5 command is sent: the file is
\* encrypted, or the loader is in secure download mode, or flash_md5sum
\* raises NotImplementedInROMError, which write_flash passes over
Md5Skip ==
    /\ wf.pc = "md5"
    /\ wf.file.encrypted \/ esp_secure \/ ~StubOrEsp32(esp)
    /\ wf' = [wf EXCEPT !.file_done = TRUE, !.pc = AfterFile(wf.index)]
    /\ UNCHANGED <<esp, esp_secure, args_compress, wf_nfiles>>
    /\ UNCHANGED notFlash

\* res = esp.flash_md5sum(address, uncsize) and the comparison with calcmd5:
\* the check_command of the MD5 command ends with `outcome` and, when it
\* returns, returns `res`
Md5Sum(outcome) ==
    /\ wf.pc = "md5"
    /\ ~(wf.file.encrypted \/ esp_secure \/ ~StubOrEsp32(esp))
    /\ \E res \in Md5Replies(wf.calcmd5) :
       /\ outcome # "return" => res = HeaderVal
       /\ LET sent == [wf EXCEPT
                         !.md5 = Append(@, Md5Request(wf.file.address, wf.uncsize,
                                                      wf.bytes_written)),
                         !.log = Append(@, Sent("flash_md5sum", 0, 0, 0))]
          IN  IF outcome # "return"
              THEN wf' = [sent EXCEPT !.pc = "raised", !.error = outcome]
              ELSE IF res = HeaderVal
              THEN \* len(res) of an int
                   wf' = [sent EXCEPT !.pc = "raised", !.error = "TypeError"]
              ELSE IF res = BadLength
              THEN wf' = [sent EXCEPT !.pc = "raised",
                            !.error = "FatalError: MD5Sum command returned unexpected result"]
              ELSE IF res # wf.calcmd5
              THEN wf' = [sent EXCEPT !.md5_res = res, !.pc = "raised",
                            !.error = "FatalError: MD5 of file does not match data in flash!"]
              ELSE wf' = [sent EXCEPT !.md5_res = res, !.status = "verified",
                            !.file_done = TRUE, !.pc = AfterFile(wf.index)]
    /\ UNCHANGED <<esp, esp_secure, args_compress, wf_nfiles>>
    /\ UNCHANGED notFlash

\* if esp.IS_STUB: esp.flash_begin(0, 0)
LeaveBegin(outcome) ==
    /\ wf.pc = "leave_begin"
    /\ IF outcome = "return"
       THEN wf' = [wf EXCEPT !.pc = "leave_finish"]
       ELSE Raise(outcome)
    /\ UNCHANGED <<esp, esp_secure, args_compress, wf_nfiles>>
    /\ UNCHANGED notFlash

\* a slip: flash_defl_finish without its early return
FinishSentAlways(self, fn, reboot) == TRUE

\* whether a finish function gets as far as its check_command:
\* flash_defl_finish returns before it when `not reboot and not self.IS_STUB`,
\* flash_finish has no such test
FinishSent(self, fn, reboot) ==
    IF fn = "flash_defl_finish" THEN ~(~reboot /\ ~self.IS_STUB) ELSE TRUE

\* the function write_flash leaves with: flash_defl_finish when
\* `args.compress and not last_file_encrypted`, flash_finish otherwise
LeaveFunction ==
    IF args_compress /\ ~wf.file.encrypted THEN "flash_defl_finish" ELSE "flash_finish"

\* one call of a finish function, as wf.finish records it
FinishEntry(by, fn, reboot) ==
    [by |-> by, fn |-> fn, reboot |-> reboot, sent |-> FinishSent(esp, fn, reboot)]

\* esp.flash_defl_finish(False) or esp.flash_finish(False), on a stub
LeaveFinish(outcome) ==
    /\ wf.pc = "leave_finish"
    /\ LET called == [wf EXCEPT
                        !.finish = Append(@, FinishEntry("write_flash", LeaveFunction, FALSE))]
       IN  IF outcome = "return"
           THEN wf' = [called EXCEPT !.pc = "done"]
           ELSE wf' = [called EXCEPT !.pc = "raised", !.error = outcome]
    /\ UNCHANGED <<esp, esp_secure, args_compress, wf_nfiles>>
    /\ UNCHANGED notFlash

\* a finish function called after write_flash has returned, as soft_reset
\* calls flash_finish: flash_defl_finish is a stub_and_esp32_function_only
\* and raises NotImplementedInROMError on the ROM loader of an ESP8266; a
\* function that sends nothing returns, the others end as their
\* check_command does
FinishCall(fn, reboot, outcome) ==
    /\ wf.pc = "done"
    /\ IF fn = "flash_defl_finish" /\ ~StubOrEsp32(esp)
       THEN /\ outcome = "return"
            /\ Raise("NotImplementedInROMError")
       ELSE LET called == [wf EXCEPT
                             !.finish = Append(@, FinishEntry("soft_reset", fn, reboot))]
            IN  /\ ~FinishSent(esp, fn, reboot) => outcome = "return"
                /\ IF outcome = "return"
                   THEN wf' = [called EXCEPT !.pc = "left"]
                   ELSE wf' = [called EXCEPT !.pc = "raised", !.error = outcome]
    /\ UNCHANGED <<esp, esp_secure, args_compress, wf_nfiles>>
    /\ UNCHANGED notFlash

FlashNext ==
    \/ \E size \in FileSizes, encrypted \in BOOLEAN, patched \in BOOLEAN,
          csize \in CompressedSizes : NextFile(size, encrypted, patched, csize)
    \/ \E outcome \in CommandOutcomes : Begin(outcome)
    \/ \E outcome \in BlockOutcomes : BlockAttempt(outcome)
    \/ \E outcome \in CommandOutcomes : StubFlush(outcome)
    \/ Md5Skip
    \/ \E outcome \in CommandOutcomes : Md5Sum(outcome)
    \/ \E outcome \in CommandOutcomes : LeaveBegin(outcome)
    \/ \E outcome \in CommandOutcomes : LeaveFinish(outcome)
    \/ \E fn \in {"flash_finish", "flash_defl_finish"}, reboot \in BOOLEAN,
          outcome \in CommandOutcomes : FinishCall(fn, reboot, outcome)

\* ------------------------------------------------------------------------
\* Session: connect, _connect_attempt, detect_chip
\* ------------------------------------------------------------------------

\* for _ in range(5), in _connect_attempt
SYNC_TRIES == 5

\* the classes detect_chip goes through, in its order
DETECT_ORDER ==
    <<"ESP8266ROM", "ESP32ROM", "ESP32S2ROM", "ESP32S3ROM",
      "ESP32C3ROM", "ESP32C6ROM", "ESP32C2ROM", "ESP32H2ROM">>

\* the classes connect goes through when the value is not the one of self
CONNECT_ORDER ==
    <<"ESP8266ROM", "ESP32ROM", "ESP32S2ROM", "ESP32S3ROM",
      "ESP32C3ROM", "ESP32H2ROM", "ESP32C2ROM", "ESP32C6ROM">>

\* a slip: ESP32S2ROM lists the value of ESP32ROM as well
MagicValuesOverlap(cls) ==
    CASE cls = "ESP8266ROM" -> {"fff0c101"}
      [] cls = "ESP32ROM"   -> {"00f01d83"}
      [] cls = "ESP32S2ROM" -> {"000007c6", "00f01d83"}
      [] cls = "ESP32S3ROM" -> {"00000009"}
      [] cls = "ESP32C3ROM" -> {"6921506f", "1b31506f", "4881606f", "4361606f"}
      [] cls = "ESP32C6ROM" -> {"2ce0806f"}
      [] cls = "ESP32H2ROM" -> {"d7b73e80"}
      [] cls = "ESP32C2ROM" -> {"6f51306f", "7c41a06f", "0c21e06f"}
      [] OTHER -> {}

\* cls.CHIP_DETECT_MAGIC_VALUE, the 32-bit values as 8 hexadecimal digits
MagicValues(cls) ==
    CASE cls = "ESP8266ROM" -> {"fff0c101"}
      [] cls = "ESP32ROM"   -> {"00f01d83"}
      [] cls = "ESP32S2ROM" -> {"000007c6"}
      [] cls = "ESP32S3ROM" -> {"00000009"}
      [] cls = "ESP32C3ROM" -> {"6921506f", "1b31506f", "4881606f", "4361606f"}
      [] cls = "ESP32C6ROM" -> {"2ce0806f"}
      [] cls = "ESP32H2ROM" -> {"d7b73e80"}
      [] cls = "ESP32C2ROM" -> {"6f51306f", "7c41a06f", "0c21e06f"}
      [] OTHER -> {}

\* the values read_reg(CHIP_DETECT_MAGIC_REG_ADDR) may return: the values of
\* the tables and two values of no table
RegValues ==
    UNION {MagicValues(DETECT_ORDER[i]) : i \in 1..Len(DETECT_ORDER)}
        \cup {"00000000", "ffffffff"}

\* the connect modes: with reset and sync, without reset, without either
Modes == {"default_reset", "no_reset", "no_reset_no_sync"}

\* the attempt budgets: unbounded (zero, negative) and 1..MaxAttempts - 1
AttemptBudgets == -1..(MaxAttempts - 1)

\* how sync() may end
SyncOutcomes == {"return", "FatalError", "UnsupportedCommandError", "IndexError"}

\* how _post_connect() and check_chip_id() may end: both return; the chip id
\* differs from IMAGE_CHIP_ID; one of them raises
HookOutcomes == {"ok", "mismatch", "FatalError", "UnsupportedCommandError"}

\* the hooks of class `cls`: ESP8266ROM and ESP32ROM keep the empty
\* _post_connect of ESPLoader, and get_chip_id is refused for every class
\* that is not ESP32S3ROM, ESP32C3ROM or one of their subclasses, which
\* check_chip_id passes over
HooksOf(cls) ==
    IF cls \in {"ESP8266ROM", "ESP32ROM"} THEN {"ok"}
    ELSE IF cls = "ESP32S2ROM" THEN HookOutcomes \ {"mismatch"}
    ELSE HookOutcomes

FAILED_TO_CONNECT == "FatalError: Failed to connect"

\* the errors _connect_attempt makes up when the reset showed a boot log
WRONG_BOOT_MODE == "FatalError: Wrong boot mode detected"
NO_SYNC_REPLY == "FatalError: Download mode successfully detected, but getting no sync reply"

\* what the port holds after the reset: no boot log, a boot log without
\* "waiting for download", a boot log with it
BootLogs == {"none", "boot", "download"}

WRONG_CHIP == "FatalError: This chip is not. Wrong --chip argument?"

SECURE_DETECT == "FatalError: Unsupported Command Error received"

UNEXPECTED_MAGIC == "FatalError: Unexpected CHIP magic value"

NoLoader ==
    [cls |-> "None", IS_STUB |-> FALSE, sync_stub_detected |-> FALSE,
     secure_download_mode |-> FALSE, stub_is_disabled |-> FALSE]

ConnectIdle ==
    [pc |-> "idle", cls |-> "ESPLoader", mode |-> "default_reset", attempts |-> 0,
     detecting |-> FALSE, made |-> 0, failed |-> 0, tries |-> 0, delays |-> <<>>,
     resets |-> 0, boot |-> "none", log |-> <<>>, syncs |-> <<>>,
     returned |-> "", read |-> "", magic |-> "", hooks |-> "",
     last_error |-> "", sync_stub_detected |-> FALSE,
     secure_download_mode |-> FALSE, stub_is_disabled |-> FALSE,
     raised_in |-> "", error |-> ""]

DetectIdle ==
    [pc |-> "idle", magic |-> "", inst |-> "None", initialised |-> <<>>,
     hook |-> "", wrap |-> "", result |-> NoLoader, reported |-> "", error |-> ""]

\* the handshake literal b'OHAI'
OHAI == <<79, 72, 65, 73>>

ESP_RAM_BLOCK == 6144

RunStubIdle ==
    [pc |-> "idle", self |-> NoLoader, stub |-> <<0, 0>>, field |-> 1, seq |-> 0,
     cmds |-> <<>>, reads |-> 0, frame |-> <<>>, result |-> NoLoader, error |-> "",
     no_stub |-> FALSE, called |-> FALSE, load |-> <<>>, main |-> "", exit |-> 0]

SessionInit ==
    /\ cn = ConnectIdle
    /\ dc = DetectIdle
    /\ rs = RunStubIdle

\* connect() entered, up to the loop over the attempts
ConnectBegin(cls, mode, attempts, detecting) ==
    [ConnectIdle EXCEPT !.pc = "loop", !.cls = cls, !.mode = mode,
                        !.attempts = attempts, !.detecting = detecting]

\* _esp = chip_class(...); _esp.connect(before, connect_attempts)
ConnectCall(cls, mode, attempts) ==
    /\ cn.pc = "idle"
    /\ dc.pc = "idle"
    /\ cn' = ConnectBegin(cls, mode, attempts, FALSE)
    /\ UNCHANGED <<dc, rs>>
    /\ UNCHANGED notSession

\* detect_chip(...) up to detect_port.connect(connect_mode, connect_attempts,
\* detecting=True)
DetectChipCall(mode, attempts) ==
    /\ cn.pc = "idle"
    /\ dc.pc = "idle"
    /\ cn' = ConnectBegin("ESPLoader", mode, attempts, TRUE)
    /\ dc' = [dc EXCEPT !.pc = "connect"]
    /\ UNCHANGED rs
    /\ UNCHANGED notSession

\* a slip: one attempt more than the budget
BudgetLeftOneMore(attempts, made) == attempts <= 0 \/ made <= attempts

\* zip(range(attempts) if attempts > 0 else itertools.count(), ...) has a
\* next pair after `made` attempts
BudgetLeft(attempts, made) == attempts <= 0 \/ made < attempts

\* a slip: the cycle starts with the extra delay
ExtraDelayFlipped(k) == <<TRUE, FALSE>>[(k % 2) + 1]

\* the extra_delay zip(..., itertools.cycle((False, True))) pairs with the
\* k-th attempt of a connect, counting from 0: the cycle is made anew by
\* every connect and advances by one with every attempt
ExtraDelay(k) == <<FALSE, TRUE>>[(k % 2) + 1]

\* where connect goes when an attempt returned None
AfterLoop == IF cn.detecting THEN "connected" ELSE "post"

\* a slip: the error of the last sync is returned whatever the boot log
AttemptErrorPlain(boot, last_error) == last_error

\* _connect_attempt after its loop: the error it returns when all syncs
\* failed, last_error being the FatalError of the last one
AttemptError(boot, last_error) ==
    IF boot = "none" THEN last_error
    ELSE IF boot = "download" THEN NO_SYNC_REPLY
    ELSE WRONG_BOOT_MODE

\* the head of the loop over the attempts and of _connect_attempt: the next
\* pair of zip(range(attempts) or count(), cycle((False, True))), the reset,
\* which toggles DTR and RTS, and the search for a boot log in what the port
\* holds after it
AttemptStart(boot) ==
    /\ cn.pc = "loop"
    /\ BudgetLeft(cn.attempts, cn.made)
    /\ cn.made < MaxAttempts
    /\ cn.mode # "default_reset" => boot = "none"
    /\ LET extra_delay == ExtraDelay(cn.made)
           entered == [cn EXCEPT !.made = @ + 1,
                                 !.delays = Append(@, extra_delay),
                                 !.tries = 0, !.last_error = "",
                                 !.boot = boot, !.log = <<>>, !.syncs = <<>>,
                                 !.returned = ""]
       IN  IF cn.mode = "no_reset_no_sync"
           THEN \* return last_error, which is None
                cn' = [entered EXCEPT !.pc = AfterLoop, !.returned = "None"]
           ELSE IF cn.mode # "no_reset"
           THEN cn' = [entered EXCEPT !.pc = "sync", !.resets = @ + 1,
                                      !.log = <<"bootloader_reset">>]
           ELSE cn' = [entered EXCEPT !.pc = "sync"]
    /\ UNCHANGED <<dc, rs>>
    /\ UNCHANGED notSession

\* one pass of the loop of _connect_attempt: flush_input, flushOutput and a
\* sync() that ends with `outcome`; `stub` is what sync() leaves in
\* sync_stub_detected, `assigned` whether it got as far as assigning it.
\* The fifth FatalError ends the attempt, and the loop of connect when the
\* budget is used up.
SyncTry(outcome, stub, assigned) ==
    /\ cn.pc = "sync"
    /\ outcome = "return" => assigned
    /\ ~assigned => ~stub
    /\ LET synced == [cn EXCEPT !.sync_stub_detected = IF assigned THEN stub ELSE @,
                                !.tries = @ + 1,
                                !.log = @ \o <<"flush_input", "flushOutput", "sync">>,
                                !.syncs = Append(@, outcome)]
           returned == AttemptError(cn.boot, outcome)
       IN  IF outcome = "return"
           THEN \* return None
                cn' = [synced EXCEPT !.pc = AfterLoop, !.last_error = "",
                                     !.returned = "None"]
           ELSE IF outcome = "FatalError"
           THEN IF cn.tries + 1 < SYNC_TRIES
                THEN cn' = [synced EXCEPT !.last_error = outcome]
                ELSE IF ~BudgetLeft(cn.attempts, cn.made)
                THEN cn' = [synced EXCEPT !.last_error = returned, !.failed = @ + 1,
                                          !.returned = returned,
                                          !.pc = "raised", !.raised_in = "attempt",
                                          !.error = FAILED_TO_CONNECT]
                ELSE cn' = [synced EXCEPT !.last_error = returned, !.failed = @ + 1,
                                          !.returned = returned,
                                          !.pc = "loop"]
           ELSE cn' = [synced EXCEPT !.pc = "raised", !.raised_in = "attempt",
                                     !.error = outcome]
    /\ UNCHANGED <<dc, rs>>
    /\ UNCHANGED notSession

\* the first class of `order` whose table holds `value`, "None" when none does
RECURSIVE Actually(_, _)
Actually(order, value) ==
    IF order = <<>> THEN "None"
    ELSE IF value \in MagicValues(Head(order)) THEN Head(order)
    ELSE Actually(Tail(order), value)

\* self._post_connect(); self.check_chip_id(), ending with `hook`
AfterHooks(c, hook) ==
    IF hook = "ok" THEN [c EXCEPT !.pc = "connected", !.hooks = hook]
    ELSE IF hook = "mismatch"
    THEN [c EXCEPT !.pc = "connected", !.stub_is_disabled = TRUE, !.hooks = hook]
    ELSE [c EXCEPT !.pc = "raised", !.raised_in = "post", !.error = hook,
                   !.hooks = hook]

\* if not detecting: the magic register is read again, read_reg ending with
\* `outcome` and returning `value`, then the hooks run.  (warnings is True:
\* no caller of connect passes it.)
ConnectPost(outcome, value, hook) ==
    /\ cn.pc = "post"
    /\ hook \in HooksOf(cn.cls)
    /\ LET c == [cn EXCEPT !.read = outcome,
                           !.magic = IF outcome = "return" THEN value ELSE ""]
       IN  IF outcome = "return"
           THEN IF value \in MagicValues(cn.cls) \/ Actually(CONNECT_ORDER, value) = "None"
                THEN cn' = AfterHooks(c, hook)
                ELSE /\ hook = "ok"
                     /\ cn' = [c EXCEPT !.pc = "raised", !.raised_in = "post",
                                        !.error = WRONG_CHIP]
           ELSE IF outcome = "UnsupportedCommandError"
           THEN /\ value = "00000000"
                /\ cn' = AfterHooks([c EXCEPT !.secure_download_mode = TRUE], hook)
           ELSE /\ value = "00000000" /\ hook = "ok"
                /\ cn' = [c EXCEPT !.pc = "raised", !.raised_in = "post",
                                   !.error = outcome]
    /\ UNCHANGED <<dc, rs>>
    /\ UNCHANGED notSession

\* detect_port.connect raised: the exception leaves detect_chip
DetectConnectFailed ==
    /\ dc.pc = "connect"
    /\ cn.pc = "raised"
    /\ dc' = [dc EXCEPT !.pc = "raised", !.error = cn.error]
    /\ UNCHANGED <<cn, rs>>
    /\ UNCHANGED notSession

\* chip_magic_value = detect_port.read_reg(CHIP_DETECT_MAGIC_REG_ADDR)
DetectReadReg(outcome, value) ==
    /\ dc.pc = "connect"
    /\ cn.pc = "connected"
    /\ IF outcome = "return"
       THEN dc' = [dc EXCEPT !.pc = "match", !.magic = value]
       ELSE /\ value = "00000000"
            /\ dc' = [dc EXCEPT !.pc = "raised",
                        !.error = IF outcome = "UnsupportedCommandError"
                                  THEN SECURE_DETECT ELSE outcome]
    /\ UNCHANGED <<cn, rs>>
    /\ UNCHANGED notSession

\* the loop of detect_chip over `order` from `state` = [inst, initialised,
\* raised]: every class whose table holds the value is instantiated and its
\* hooks run; a hook that raises ends the loop
RECURSIVE DetectLoop(_, _, _, _)
DetectLoop(order, value, hook, state) ==
    IF order = <<>> \/ state.raised THEN state
    ELSE IF value \in MagicValues(Head(order))
    THEN DetectLoop(Tail(order), value, hook,
                    [inst |-> Head(order),
                     initialised |-> Append(state.initialised, Head(order)),
                     raised |-> hook \in {"FatalError", "UnsupportedCommandError"}])
    ELSE DetectLoop(Tail(order), value, hook, state)

\* inst.STUB_CLASS(inst): the stub loader takes secure_download_mode, _port
\* and _trace_enabled from the ROM loader; everything else is its class's
StubClass(loader) ==
    [cls |-> loader.cls, IS_STUB |-> TRUE, sync_stub_detected |-> FALSE,
     secure_download_mode |-> loader.secure_download_mode,
     stub_is_disabled |-> FALSE]

\* the loader detect_chip returns for class `cls`: a new instance, with
\* stub_is_disabled as check_chip_id left it, wrapped in its STUB_CLASS and
\* marked when the sync of detect_port detected a stub
DetectedLoader(cls, detected, mismatch) ==
    LET inst == [cls |-> cls, IS_STUB |-> FALSE, sync_stub_detected |-> FALSE,
                 secure_download_mode |-> FALSE, stub_is_disabled |-> mismatch]
    IN  IF detected
        THEN [StubClass(inst) EXCEPT !.sync_stub_detected = TRUE]
        ELSE inst

\* the loader connect() was called on, once connected
ConnectedLoader(c) ==
    [cls |-> c.cls, IS_STUB |-> FALSE, sync_stub_detected |-> c.sync_stub_detected,
     secure_download_mode |-> c.secure_download_mode,
     stub_is_disabled |-> c.stub_is_disabled]

\* how inst.STUB_CLASS(inst) may end in the finally clause
WrapOutcomes == {"return", "FatalError: Failed to read register", "UnsupportedCommandError"}

\* a slip: every stub class reads the register
WrapReadsAnyClass(cls, detected, hook) ==
    detected /\ hook \in {"FatalError", "UnsupportedCommandError"}

\* inst.STUB_CLASS(inst) may read a register: the constructors of
\* ESP32S2StubLoader and ESP32S3StubLoader call rom_loader.uses_usb(), which
\* reads UARTDEV_BUF_NO unless an earlier call has cached the answer, and
\* _post_connect of these classes is such a call unless it raised
WrapReads(cls, detected, hook) ==
    /\ detected
    /\ cls \in {"ESP32S2ROM", "ESP32S3ROM"}
    /\ hook \in {"FatalError", "UnsupportedCommandError"}

\* the loop over the classes and the finally clause: with an inst the loader
\* is returned whatever the hooks raised, wrapped in its STUB_CLASS when the
\* sync of detect_port detected a stub, unless the constructor of the stub
\* class raises; without an inst FatalError is raised
DetectMatch(hook, wrap) ==
    /\ dc.pc = "match"
    /\ LET end == DetectLoop(DETECT_ORDER, dc.magic, hook,
                             [inst |-> "None", initialised |-> <<>>, raised |-> FALSE])
           made == [dc EXCEPT !.inst = end.inst, !.hook = hook, !.wrap = wrap,
                              !.initialised = end.initialised]
       IN  IF end.inst # "None"
           THEN /\ hook \in HooksOf(end.inst)
                /\ ~WrapReads(end.inst, cn.sync_stub_detected, hook) => wrap = "return"
                /\ IF wrap = "return"
                   THEN dc' = [made EXCEPT
                                 !.pc = "returned",
                                 !.result = DetectedLoader(end.inst, cn.sync_stub_detected,
                                                           hook = "mismatch")]
                   ELSE dc' = [made EXCEPT !.pc = "raised", !.error = wrap]
           ELSE /\ hook = "ok"
                /\ wrap = "return"
                /\ dc' = [dc EXCEPT !.pc = "raised", !.error = UNEXPECTED_MAGIC,
                                    !.reported = dc.magic]
    /\ UNCHANGED <<cn, rs>>
    /\ UNCHANGED notSession

\* ------------------------------------------------------------------------
\* The window: MainWindow.flash_esp and FlashingThread (gui.py)
\* ------------------------------------------------------------------------

\* the serial ports get_port_list can report
Ports == {"p1", "p2"}

\* the lists get_port_list can return
PortLists == {<<>>, <<"p1">>, <<"p2">>, <<"p1", "p2">>, <<"p2", "p1">>}

\* the names QFileDialog.getOpenFileName can return, "" when cancelled
FileNames == {"", "fw.bin"}

Platforms == {"posix", "nt"}

\* MainWindow.__init__: _firmware and _no_erase as set there, then init_ui
\* calls reload_ports before select_port is connected to the combo box
GuiInit ==
    /\ \E ports \in PortLists :
          gui = [_firmware |-> "",
                 _port     |-> IF ports # <<>> THEN ports[1] ELSE "",
                 _no_erase |-> TRUE,
                 items     |-> IF ports # <<>> THEN ports ELSE <<"">>,
                 console   |-> "empty"]
    /\ workers = <<>>
    /\ platform \in Platforms

\* reload_ports, with select_port connected: clear() and the first item
\* added each signal currentIndexChanged, and the last assignment wins
ReloadPorts(ports) ==
    /\ gui' = [gui EXCEPT
                  !.items = IF ports # <<>> THEN ports ELSE <<"">>,
                  !._port = IF ports # <<>> THEN ports[1] ELSE ""]
    /\ UNCHANGED <<workers, platform>>
    /\ UNCHANGED notGui

\* select_port(index); the items are numbered from 1 here
SelectPort(index) ==
    /\ index \in 1..Len(gui.items)
    /\ gui' = [gui EXCEPT !._port = gui.items[index]]
    /\ UNCHANGED <<workers, platform>>
    /\ UNCHANGED notGui

\* pick_file
PickFile(file_name) ==
    /\ gui' = IF file_name # ""
                 THEN [gui EXCEPT !._firmware = file_name]
                 ELSE gui
    /\ UNCHANGED <<workers, platform>>
    /\ UNCHANGED notGui

\* no_erase_flash
NoEraseFlash(checked) ==
    /\ gui' = [gui EXCEPT !._no_erase = checked]
    /\ UNCHANGED <<workers, platform>>
    /\ UNCHANGED notGui

\* FlashingThread.run: the argv handed to run_emsesp_flasher
Argv(firmware, port, no_erase, show_logs) ==
    <<"emsesp_flasher", "--port", port, firmware>>
        \o (IF show_logs THEN <<"--show-logs">> ELSE <<>>)
        \o (IF no_erase THEN <<"--no-erase">> ELSE <<>>)

\* FlashingThread(firmware, port, no_erase) followed by start()
FlashingThread(firmware, port, no_erase) ==
    [argv |-> Argv(firmware, port, no_erase, FALSE), state |-> "started"]

\* flash_esp: clears the console and, with a firmware and a port chosen,
\* starts a new FlashingThread, whatever the threads started before are doing
FlashEsp ==
    /\ Len(workers) < MaxThreads
    /\ gui' = [gui EXCEPT !.console = "empty"]
    /\ workers' = IF gui._firmware # "" /\ gui._port # ""
                     THEN Append(workers,
                                 FlashingThread(gui._firmware, gui._port,
                                                gui._no_erase))
                     ELSE workers
    /\ UNCHANGED platform
    /\ UNCHANGED notGui

\* run_emsesp_flasher(argv): the serial port its session works on
SessionPort(argv) == argv[3]

\* the threads whose session holds the port open
Owners(port) ==
    {t \in DOMAIN workers :
        /\ workers[t].state \in {"open", "in_flight"}
        /\ SessionPort(workers[t].argv) = port}

\* the threads whose session has a command in flight on the port
InFlight(port) ==
    {t \in DOMAIN workers :
        /\ workers[t].state = "in_flight"
        /\ SessionPort(workers[t].argv) = port}

\* ESPLoader.__init__: serial.serial_for_url(port) asks for no exclusive
\* access, so whether a port that is open opens again is the platform's choice
PortOpens(port) == platform = "posix" \/ Owners(port) = {}

\* FlashingThread.run up to the session's ESPLoader: the port is opened, or
\* the SerialException is printed and raised again
WorkerRun(t) ==
    /\ t \in DOMAIN workers
    /\ workers[t].state = "started"
    /\ IF PortOpens(SessionPort(workers[t].argv))
          THEN /\ workers' = [workers EXCEPT ![t].state = "open"]
               /\ UNCHANGED gui
          ELSE /\ workers' = [workers EXCEPT ![t].state = "raised"]
               /\ gui' = [gui EXCEPT !.console = "text"]
    /\ UNCHANGED platform
    /\ UNCHANGED notGui

\* ESPLoader.command, first half: the request is written to the port
WorkerWrite(t) ==
    /\ t \in DOMAIN workers
    /\ workers[t].state = "open"
    /\ workers' = [workers EXCEPT ![t].state = "in_flight"]
    /\ UNCHANGED <<gui, platform>>
    /\ UNCHANGED notGui

\* ESPLoader.command, second half: the response is read, or no response
\* comes and the exception ends run()
WorkerRead(t, outcome) ==
    /\ t \in DOMAIN workers
    /\ workers[t].state = "in_flight"
    /\ IF outcome = "ok"
          THEN /\ workers' = [workers EXCEPT ![t].state = "open"]
               /\ UNCHANGED gui
          ELSE /\ workers' = [workers EXCEPT ![t].state = "raised"]
               /\ gui' = [gui EXCEPT !.console = "text"]
    /\ UNCHANGED platform
    /\ UNCHANGED notGui

\* the session ends and closes its port
WorkerClose(t) ==
    /\ t \in DOMAIN workers
    /\ workers[t].state = "open"
    /\ workers' = [workers EXCEPT ![t].state = "closed"]
    /\ gui' = [gui EXCEPT !.console = "text"]
    /\ UNCHANGED platform
    /\ UNCHANGED notGui

GuiNext ==
    \/ \E ports \in PortLists : ReloadPorts(ports)
    \/ \E index \in 1..2 : SelectPort(index)
    \/ \E file_name \in FileNames : PickFile(file_name)
    \/ \E checked \in BOOLEAN : NoEraseFlash(checked)
    \/ FlashEsp
    \/ \E t \in 1..MaxThreads : WorkerRun(t)
    \/ \E t \in 1..MaxThreads : WorkerWrite(t)
    \/ \E t \in 1..MaxThreads, outcome \in {"ok", "FatalError"} :
          WorkerRead(t, outcome)
    \/ \E t \in 1..MaxThreads : WorkerClose(t)

\* ------------------------------------------------------------------------
\* Firmware images: ImageSegment, BaseFirmwareImage.verify and
\* merge_adjacent_segments
\* ------------------------------------------------------------------------

\* A bytes object is kept as its runs of equal bytes, <<b, n>> for n >= 1
\* bytes b, no two neighbouring runs with the same byte: equal bytes objects
\* are equal sequences of runs.

\* b * n
Run(b, n) == IF n <= 0 THEN <<>> ELSE << <<b, n>> >>

RECURSIVE BLen(_)
\* len(data)
BLen(data) == IF data = <<>> THEN 0 ELSE data[1][2] + BLen(Tail(data))

\* d1 + d2
BCat(d1, d2) ==
    IF d1 = <<>> THEN d2
    ELSE IF d2 = <<>> THEN d1
    ELSE IF d1[Len(d1)][1] = d2[1][1]
         THEN SubSeq(d1, 1, Len(d1) - 1)
                 \o << <<d2[1][1], d1[Len(d1)][2] + d2[1][2]>> >>
                 \o Tail(d2)
         ELSE d1 \o d2

RECURSIVE BTake(_, _)
\* data[:n]
BTake(data, n) ==
    IF n <= 0 \/ data = <<>> THEN <<>>
    ELSE IF data[1][2] >= n THEN << <<data[1][1], n>> >>
    ELSE <<data[1]>> \o BTake(Tail(data), n - data[1][2])

RECURSIVE BDrop(_, _)
\* data[n:]
BDrop(data, n) ==
    IF n <= 0 \/ data = <<>> THEN data
    ELSE IF data[1][2] > n
         THEN << <<data[1][1], data[1][2] - n>> >> \o Tail(data)
    ELSE BDrop(Tail(data), n - data[1][2])

\* pad_to(data, alignment, pad_character)
PadData(data, alignment, pad_character) ==
    IF BLen(data) % alignment # 0
       THEN BCat(data, Run(pad_character, alignment - (BLen(data) % alignment)))
       ELSE data

\* ImageSegment(addr, data): "real" segments are padded to 4 bytes
ImageSegment(addr, data) ==
    [addr |-> addr,
     data |-> IF addr # 0 THEN PadData(data, 4, 0) ELSE data,
     include_in_checksum |-> TRUE]

\* ESP32ROM.MEMORY_MAP
MEMORY_MAP ==
    << [lo |-> 0,          hi |-> 65536,      name |-> "PADDING"],
       [lo |-> 1061158912, hi |-> 1065353216, name |-> "DROM"],
       [lo |-> 1065353216, hi |-> 1069547520, name |-> "EXTRAM_DATA"],
       [lo |-> 1073217536, hi |-> 1073225728, name |-> "RTC_DRAM"],
       [lo |-> 1073283072, hi |-> 1073741824, name |-> "BYTE_ACCESSIBLE"],
       [lo |-> 1073405952, hi |-> 1073741824, name |-> "DRAM"],
       [lo |-> 1073610752, hi |-> 1073741820, name |-> "DIRAM_DRAM"],
       [lo |-> 1073741824, hi |-> 1074200576, name |-> "IROM"],
       [lo |-> 1074200576, hi |-> 1074233344, name |-> "CACHE_PRO"],
       [lo |-> 1074233344, hi |-> 1074266112, name |-> "CACHE_APP"],
       [lo |-> 1074266112, hi |-> 1074397184, name |-> "IRAM"],
       [lo |-> 1074397184, hi |-> 1074528252, name |-> "DIRAM_IRAM"],
       [lo |-> 1074528256, hi |-> 1074536448, name |-> "RTC_IRAM"],
       [lo |-> 1074593792, hi |-> 1077936128, name |-> "IROM"],
       [lo |-> 1342177280, hi |-> 1342185472, name |-> "RTC_DATA"] >>

RECURSIVE Names(_)
Names(ranges) ==
    IF ranges = <<>> THEN <<>> ELSE <<ranges[1].name>> \o Names(Tail(ranges))

\* ImageSegment.get_memory_type: the types of the ranges that hold the
\* segment's start address, in the order of MEMORY_MAP
MemoryType(segment) ==
    LET Holds(map_range) ==
            map_range.lo <= segment.addr /\ segment.addr < map_range.hi
    IN Names(SelectSeq(MEMORY_MAP, Holds))

\* merge_adjacent_segments: the condition under which next_elem is merged
\* into elem
MergeableNoType(elem, next_elem) ==
    /\ elem.include_in_checksum = next_elem.include_in_checksum
    /\ next_elem.addr = elem.addr + BLen(elem.data)

Mergeable(elem, next_elem) ==
    /\ MemoryType(elem) = MemoryType(next_elem)
    /\ elem.include_in_checksum = next_elem.include_in_checksum
    /\ next_elem.addr = elem.addr + BLen(elem.data)

RECURSIVE MergeLoop(_, _, _)
\* merge_adjacent_segments: the loop `for i in range(len - 1, 0, -1)`, with
\* the items numbered from 1: old holds self.segments (elem.data += ... changes
\* the item in place), segments the list being built
MergeLoop(old, segments, i) ==
    IF i < 2 THEN <<old[1]>> \o segments
    ELSE LET elem == old[i - 1]
             next_elem == old[i]
         IN IF Mergeable(elem, next_elem)
               THEN MergeLoop(
                        [old EXCEPT ![i - 1].data =
                                        BCat(elem.data, next_elem.data)],
                        segments, i - 1)
               ELSE MergeLoop(old, <<next_elem>> \o segments, i - 1)

\* merge_adjacent_segments: the value of self.segments afterwards
MergeAdjacentSegments(segments) ==
    IF segments = <<>> THEN segments
    ELSE MergeLoop(segments, <<>>, Len(segments))

\* BaseFirmwareImage.verify: the most segments an image may hold
MAX_SEGMENTS == 16

\* BaseFirmwareImage.verify: TRUE when it raises
VerifyRaisesFrom16(segments) == Len(segments) >= MAX_SEGMENTS

VerifyRaises(segments) == Len(segments) > MAX_SEGMENTS

INVALID_SEGMENT_COUNT == "FatalError: Invalid segment count"

\* the segments the model builds short lists of: the two sections of
\* scenario D and a third that follows them, a section that does not follow,
\* an empty one, two sections that meet where DROM ends and EXTRAM_DATA
\* starts, and two that meet where DRAM starts inside BYTE_ACCESSIBLE
Sections ==
    { ImageSegment(4096, Run(17, 16)),
      ImageSegment(4112, Run(34, 32)),
      ImageSegment(4144, Run(51, 3)),
      ImageSegment(4112, Run(68, 4)),
      ImageSegment(4112, <<>>),
      ImageSegment(1065353200, Run(85, 16)),
      ImageSegment(1065353216, Run(102, 4)),
      ImageSegment(1073405936, Run(119, 16)),
      ImageSegment(1073405952, Run(136, 4)) }

\* the same with either checksum flag
FlaggedSections ==
    { [s EXCEPT !.include_in_checksum = flag] :
          s \in Sections, flag \in BOOLEAN }

RECURSIVE ListsOf(_, _)
\* the lists of at most n items of the set
ListsOf(set, n) ==
    IF n = 0 THEN {<<>>}
    ELSE LET shorter == ListsOf(set, n - 1)
         IN shorter \cup {Append(l, s) : l \in shorter, s \in set}

\* n sections of 16 bytes, each starting `step` after the one before
Chain(n, step) ==
    [i \in 1..n |-> ImageSegment(4096 + ((i - 1) * step), Run(17, 16))]

\* long lists: sections that follow each other, that leave gaps, that repeat
LongLists ==
    {Chain(n, step) : n \in 0..MaxSegments, step \in {0, 16, 32}}

SegmentLists == ListsOf(FlaggedSections, MaxSegs) \cup LongLists

ImageIdle ==
    im = [pc |-> "loaded", loaded |-> <<>>, segments |-> <<>>, error |-> ""]

\* an image whose segments were set, as elf2image and the constructors do
ImageInit ==
    \E segments \in SegmentLists :
        im = [pc |-> "loaded", loaded |-> segments, segments |-> segments,
              error |-> ""]

\* image.merge_adjacent_segments(), as elf2image calls it before verify()
MergeAdjacent ==
    /\ im.pc = "loaded"
    /\ im' = [im EXCEPT !.pc = "merged",
                        !.segments = MergeAdjacentSegments(im.segments)]
    /\ UNCHANGED sv
    /\ UNCHANGED notImage

\* image.verify()
Verify ==
    /\ im.pc \in {"loaded", "merged"}
    /\ im' = IF VerifyRaises(im.segments)
                THEN [im EXCEPT !.pc = "raised",
                                !.error = INVALID_SEGMENT_COUNT]
                ELSE [im EXCEPT !.pc = "verified"]
    /\ UNCHANGED sv
    /\ UNCHANGED notImage

ImageNext ==
    \/ MergeAdjacent
    \/ Verify

\* ------------------------------------------------------------------------
\* ESPLoader.checksum
\* ------------------------------------------------------------------------

ESP_CHECKSUM_MAGIC == 239

\* state + b, kept to 8 bits
XorAsAdd(a, b) == (a + b) % 256

RECURSIVE Xor(_, _)
\* a ^ b, bit by bit
Xor(a, b) ==
    IF a = 0 THEN b
    ELSE IF b = 0 THEN a
    ELSE ((a + b) % 2) + (2 * Xor(a \div 2, b \div 2))

RECURSIVE Checksum(_, _)
\* ESPLoader.checksum(data, state): `for b in data: state ^= b`
Checksum(data, state) ==
    IF data = <<>> THEN state
    ELSE Checksum(Tail(data), Xor(state, data[1]))

\* the byte values the model builds data of
ChecksumBytes == {1, 85, 192}

\* the 8-bit seeds
Seeds == 0..255

ChecksumData == ListsOf(ChecksumBytes, MaxLen)

\* cs: pc      "idle", "once" after checksum(data, seed), "twice" after
\*             checksum(data, <the first result>)
\*     data, seed   the arguments of the first call
\*     state   the value returned last
ChecksumIdle ==
    cs = [pc |-> "idle", data |-> <<>>, seed |-> ESP_CHECKSUM_MAGIC,
          state |-> ESP_CHECKSUM_MAGIC]

\* checksum(data, seed)
ChecksumCall(data, seed) ==
    /\ cs.pc = "idle"
    /\ cs' = [pc |-> "once", data |-> data, seed |-> seed,
              state |-> Checksum(data, seed)]
    /\ UNCHANGED notChecksum

\* checksum(data, state) with the value returned before as the seed
ChecksumAgain ==
    /\ cs.pc = "once"
    /\ cs' = [cs EXCEPT !.pc = "twice",
                        !.state = Checksum(cs.data, cs.state)]
    /\ UNCHANGED notChecksum

ChecksumNext ==
    \/ \E data \in ChecksumData, seed \in Seeds : ChecksumCall(data, seed)
    \/ ChecksumAgain

\* ------------------------------------------------------------------------
\* ESP32FirmwareImage.save
\* ------------------------------------------------------------------------

IROM_ALIGN == 65536
SEG_HEADER_LEN == 8
COMMON_HEADER_LEN == 8
EXTENDED_HEADER_LEN == 16
SHA256_DIGEST_LEN == 32
IROM_MAP_START == 1074593792
IROM_MAP_END == 1077936128
DROM_MAP_START == 1061158912
DROM_MAP_END == 1065353216

\* ESP32FirmwareImage.is_flash_addr
IsFlashAddr(addr) ==
    \/ IROM_MAP_START <= addr /\ addr < IROM_MAP_END
    \/ DROM_MAP_START <= addr /\ addr < DROM_MAP_END

IsFlashSegment(segment) == IsFlashAddr(segment.addr)

IsRamSegment(segment) == ~IsFlashAddr(segment.addr)

RECURSIVE InsertByAddr(_, _)
\* s put before the first segment of the sorted list whose addr is not lower
InsertByAddr(s, sorted) ==
    IF sorted = <<>> THEN <<s>>
    ELSE IF s.addr <= sorted[1].addr THEN <<s>> \o sorted
    ELSE <<sorted[1]>> \o InsertByAddr(s, Tail(sorted))

RECURSIVE SortByAddr(_)
\* sorted(segments, key=lambda s: s.addr); the sort is stable
SortByAddr(segments) ==
    IF segments = <<>> THEN <<>>
    ELSE InsertByAddr(segments[1], SortByAddr(Tail(segments)))

RECURSIVE SameMapping(_, _)
\* save: TRUE when a flash segment lands in the 64KB mapping of the one
\* before it
SameMapping(flash_segments, last_addr) ==
    IF flash_segments = <<>> THEN FALSE
    ELSE \/ flash_segments[1].addr \div IROM_ALIGN = last_addr \div IROM_ALIGN
         \/ SameMapping(Tail(flash_segments), flash_segments[1].addr)

\* save.get_alignment_data_needed, f.tell() being pos
AlignmentDataNeeded(segment, pos) ==
    LET align_past == (segment.addr % IROM_ALIGN) - SEG_HEADER_LEN
        pad_len == (IROM_ALIGN - (pos % IROM_ALIGN)) + align_past
    IN IF pad_len = 0 \/ pad_len = IROM_ALIGN THEN 0
       ELSE IF pad_len - SEG_HEADER_LEN < 0
            THEN (pad_len - SEG_HEADER_LEN) + IROM_ALIGN
            ELSE pad_len - SEG_HEADER_LEN

RECURSIVE ChecksumRuns(_, _)
\* ESPLoader.checksum over data kept as runs: n equal bytes b fold to b when
\* n is odd and to 0 when n is even
ChecksumRuns(data, state) ==
    IF data = <<>> THEN state
    ELSE ChecksumRuns(Tail(data),
                      IF data[1][2] % 2 = 1 THEN Xor(state, data[1][1])
                                            ELSE state)

\* ImageSegment.split_image(split_len): the segment returned
SplitHead(segment, split_len) ==
    [segment EXCEPT !.data = BTake(segment.data, split_len)]

\* ImageSegment.split_image(split_len): what is left of the segment
SplitRest(segment, split_len) ==
    [segment EXCEPT !.data = BDrop(segment.data, split_len),
                    !.addr = segment.addr + split_len]

\* save_flash_segment: the data written, with the ESP32 workaround for a
\* segment that ends less than 0x24 bytes after a page boundary
FlashSegmentData(segment, pos) ==
    LET segment_end_pos == pos + BLen(segment.data) + SEG_HEADER_LEN
        segment_len_remainder == segment_end_pos % IROM_ALIGN
    IN IF segment_len_remainder < 36
          THEN BCat(segment.data, Run(0, 36 - segment_len_remainder))
          ELSE segment.data

\* save_segment: the state after the sub-header and the data were written;
\* elf_sha256_offset is left at 0, so maybe_patch_segment_data changes nothing
SaveSegment(s, kind, addr, data) ==
    [s EXCEPT !.written = Append(@, [kind |-> kind, addr |-> addr,
                                     file_offs |-> s.pos,
                                     len |-> BLen(data), data |-> data]),
              !.pos = s.pos + SEG_HEADER_LEN + BLen(data),
              !.checksum = ChecksumRuns(data, s.checksum),
              !.total_segments = @ + 1]

\* a slip: the position is moved to the next multiple of size
AlignFilePositionBlock(pos, size) == pos + (size - (pos % size))

\* align_file_position(f, size): f.tell() after the seek
AlignFilePosition(pos, size) ==
    LET align == (size - 1) - (pos % size)
    IN pos + align

\* append_checksum: the seek to the last byte of a 16-byte block and the
\* checksum byte written there
AppendChecksum(s) ==
    LET at == AlignFilePosition(s.pos, 16)
    IN [s EXCEPT !.end_pos = s.pos, !.checksum_pos = at,
                 !.checksum_byte = s.checksum, !.pos = at + 1]

\* sv: image           the class of the image: "ESP32FirmwareImage" or
\*                     "ESP8266V2FirmwareImage"
\*     pc              "idle", "loop" in the while loop over the flash
\*                     segments, "ram" in the for loop over the RAM segments
\*                     left, "done", "raised"
\*     secure_pad      self.secure_pad, "" for None
\*     pad_to_size     self.pad_to_size
\*     pos             f.tell()
\*     flash_segments, ram_segments, checksum, total_segments
\*                     the variables of save
\*     written         the segments written: kind "pad", "flash", "ram" or
\*                     "secure_pad", "irom" or "normal" in a V2 image, the
\*                     load address, the file offset of the sub-header, the
\*                     length of the data and the data
\*     end_pos         f.tell() when append_checksum is called
\*     checksum_pos    the file offset of the checksum byte
\*     checksum_byte   the checksum byte written
\*     image_length    image_length
\*     header_segments the segment count written back into the header
\*     error           the exception save raised, "" for none
SaveIdle ==
    sv = [pc |-> "idle", image |-> "ESP32FirmwareImage",
          secure_pad |-> "", pad_to_size |-> 0, pos |-> 0,
          flash_segments |-> <<>>, ram_segments |-> <<>>,
          checksum |-> ESP_CHECKSUM_MAGIC, total_segments |-> 0,
          written |-> <<>>, end_pos |-> 0, checksum_pos |-> 0,
          checksum_byte |-> 0, image_length |-> 0, header_segments |-> 0,
          error |-> ""]

SAME_MAPPING == "FatalError: lands in same 64KB flash mapping"
\* the assert before a flash segment is written
ASSERTION_ERROR == "AssertionError: alignment"
\* the assert after the checksum of an image padded for signing
SECURE_PAD_ASSERTION == "AssertionError: secure_pad"

\* the segments the model saves images of: flash-mapped segments at several
\* offsets inside a 64KB page, one of them filling its page up to 16 bytes
\* before the end, RAM segments, short and longer than a page, and a segment
\* that is flash-mapped on an ESP32 and irom0 on an ESP8266
SaveSegments ==
    { ImageSegment(1061158944, Run(85, 65488)),
      ImageSegment(1061158944, Run(85, 16)),
      ImageSegment(1074593792, Run(17, 16)),
      ImageSegment(1074593824, Run(34, 16)),
      ImageSegment(1074593832, Run(51, 16)),
      ImageSegment(1074659352, Run(68, 16)),
      ImageSegment(1073414144, Run(102, 32)),
      ImageSegment(1074266112, Run(119, 70000)),
      ImageSegment(1075904512, BCat(Run(153, 3), Run(7, 17))) }

\* n flash-mapped segments of 16 bytes, one in each of n 64KB pages
FlashPages(n) ==
    [i \in 1..n |-> ImageSegment(DROM_MAP_START + ((i - 1) * IROM_ALIGN) + 32,
                                 Run(85, 16))]

\* images with as many segments as verify() lets through: flash-mapped
\* segments only, and a RAM segment longer than a page before flash-mapped
\* ones
FullImages ==
    { FlashPages(MAX_SEGMENTS),
      <<ImageSegment(1074266112, Run(119, 70000))>> \o FlashPages(MAX_SEGMENTS - 1) }

SaveLists == ListsOf(SaveSegments, MaxSegs) \cup FullImages

SecurePads == {"", "1", "2"}

ImageClasses == {"ESP32FirmwareImage", "ESP8266V2FirmwareImage"}

\* an image that passed verify(), about to be saved; only an
\* ESP32FirmwareImage has a secure_pad
SaveInit ==
    /\ \E segments \in SaveLists :
          /\ ~VerifyRaises(segments)
          /\ im = [pc |-> "verified", loaded |-> segments,
                   segments |-> segments, error |-> ""]
    /\ \E secure_pad \in SecurePads, image \in ImageClasses :
          /\ image # "ESP32FirmwareImage" => secure_pad = ""
          /\ sv = [pc |-> "idle", image |-> image,
                secure_pad |-> secure_pad, pad_to_size |-> 0,
                pos |-> 0, flash_segments |-> <<>>, ram_segments |-> <<>>,
                checksum |-> ESP_CHECKSUM_MAGIC, total_segments |-> 0,
                written |-> <<>>, end_pos |-> 0, checksum_pos |-> 0,
                checksum_byte |-> 0, image_length |-> 0, header_segments |-> 0,
                error |-> ""]

\* save up to the while loop: the two headers, the sorted copies of the
\* flash-mapped and of the RAM segments, the check of the flash mappings
SaveBegin ==
    /\ im.pc = "verified"
    /\ sv.pc = "idle"
    /\ sv.image = "ESP32FirmwareImage"
    /\ LET flash_segments == SelectSeq(SortByAddr(im.segments), IsFlashSegment)
           ram_segments == SelectSeq(SortByAddr(im.segments), IsRamSegment)
           s == [sv EXCEPT !.pos = COMMON_HEADER_LEN + EXTENDED_HEADER_LEN,
                           !.checksum = ESP_CHECKSUM_MAGIC,
                           !.flash_segments = flash_segments,
                           !.ram_segments = ram_segments]
       IN sv' = IF /\ flash_segments # <<>>
                   /\ SameMapping(Tail(flash_segments), flash_segments[1].addr)
                   THEN [s EXCEPT !.pc = "raised", !.error = SAME_MAPPING]
                   ELSE [s EXCEPT !.pc = "loop"]
    /\ UNCHANGED im
    /\ UNCHANGED notImage

\* one turn of `while len(flash_segments) > 0`
SaveLoop ==
    /\ sv.pc = "loop"
    /\ sv.flash_segments # <<>>
    /\ LET segment == sv.flash_segments[1]
           pad_len == AlignmentDataNeeded(segment, sv.pos)
       IN sv' =
           IF pad_len > 0
              THEN IF sv.ram_segments # <<>> /\ pad_len > SEG_HEADER_LEN
                      THEN LET pad_segment ==
                                   SplitHead(sv.ram_segments[1], pad_len)
                               rest == SplitRest(sv.ram_segments[1], pad_len)
                               s == [sv EXCEPT !.ram_segments =
                                        IF BLen(rest.data) = 0
                                           THEN Tail(@)
                                           ELSE <<rest>> \o Tail(@)]
                           IN SaveSegment(s, "pad", pad_segment.addr,
                                          pad_segment.data)
                      ELSE SaveSegment(sv, "pad", 0, Run(0, pad_len))
              ELSE IF (sv.pos + 8) % IROM_ALIGN # segment.addr % IROM_ALIGN
                      THEN [sv EXCEPT !.pc = "raised",
                                      !.error = ASSERTION_ERROR]
                      ELSE SaveSegment(
                               [sv EXCEPT !.flash_segments = Tail(@)],
                               "flash", segment.addr,
                               FlashSegmentData(segment, sv.pos))
    /\ UNCHANGED im
    /\ UNCHANGED notImage

\* the while loop ends
SaveLoopEnd ==
    /\ sv.pc = "loop"
    /\ sv.flash_segments = <<>>
    /\ sv' = [sv EXCEPT !.pc = "ram"]
    /\ UNCHANGED im
    /\ UNCHANGED notImage

\* one turn of `for segment in ram_segments`
SaveRamSegment ==
    /\ sv.pc = "ram"
    /\ sv.ram_segments # <<>>
    /\ sv' = SaveSegment([sv EXCEPT !.ram_segments = Tail(@)], "ram",
                         sv.ram_segments[1].addr, sv.ram_segments[1].data)
    /\ UNCHANGED im
    /\ UNCHANGED notImage

\* save after the segments: the padding for a signed image, the checksum
\* byte at the end of a 16-byte block, the segment count written back,
\* the digest and the padding to pad_to_size
SaveFinish ==
    /\ sv.pc = "ram"
    /\ sv.ram_segments = <<>>
    /\ LET space_after_checksum == IF sv.secure_pad = "1" THEN 112 ELSE 32
           align_past == (sv.pos + SEG_HEADER_LEN) % IROM_ALIGN
           pad_len == (IROM_ALIGN - align_past - 16 - space_after_checksum)
                          % IROM_ALIGN
           padded == IF sv.secure_pad # ""
                        THEN SaveSegment(sv, "secure_pad", 0, Run(0, pad_len))
                        ELSE sv
           appended == AppendChecksum(padded)
           image_length == appended.pos
           with_digest == image_length + SHA256_DIGEST_LEN
           file_length ==
               IF sv.pad_to_size # 0 /\ with_digest % sv.pad_to_size # 0
                  THEN with_digest
                          + (sv.pad_to_size - (with_digest % sv.pad_to_size))
                  ELSE with_digest
       IN sv' =
           IF /\ sv.secure_pad # ""
              /\ (image_length + space_after_checksum) % IROM_ALIGN # 0
              THEN [appended EXCEPT !.pc = "raised",
                                    !.error = SECURE_PAD_ASSERTION,
                                    !.image_length = image_length]
              ELSE [appended EXCEPT !.pc = "done",
                                    !.image_length = image_length,
                                    !.pos = file_length,
                                    !.header_segments = padded.total_segments]
    /\ UNCHANGED im
    /\ UNCHANGED notImage

ESP8266_IROM_MAP_START == 1075838976
ESP8266_IROM_MAP_END == 1076887552
IROM_COUNT == "FatalError: segments that could be irom0"

\* ESP8266ROMFirmwareImage.is_irom_addr
IsIromSegment(segment) ==
    ESP8266_IROM_MAP_START <= segment.addr /\ segment.addr < ESP8266_IROM_MAP_END

IsNonIromSegment(segment) == ~IsIromSegment(segment)

RECURSIVE SaveSegments8266(_, _)
\* for segment in normal_segments: checksum = self.save_segment(f, segment,
\* checksum)
SaveSegments8266(s, segments) ==
    IF segments = <<>> THEN s
    ELSE SaveSegments8266(SaveSegment(s, "normal", segments[1].addr,
                                      segments[1].data),
                          Tail(segments))

\* ESP8266V2FirmwareImage.save: the first header, the irom0 segment with load
\* address 0 and padded to 16 bytes, written by save_segment(f, irom_segment)
\* with no checksum, the second header, the other segments, the checksum
\* byte and the CRC32 of the file
SaveV2 ==
    /\ im.pc = "verified"
    /\ sv.pc = "idle"
    /\ sv.image = "ESP8266V2FirmwareImage"
    /\ LET irom_segments == SelectSeq(im.segments, IsIromSegment)
           normal_segments == SelectSeq(im.segments, IsNonIromSegment)
           irom_data == IF irom_segments = <<>> THEN <<>>
                        ELSE PadData(irom_segments[1].data, 16, 0)
           first == [sv EXCEPT !.pos = COMMON_HEADER_LEN]
           irom == IF irom_segments = <<>> THEN first
                   ELSE [first EXCEPT
                           !.written = Append(@, [kind |-> "irom", addr |-> 0,
                                                  file_offs |-> first.pos,
                                                  len |-> BLen(irom_data),
                                                  data |-> irom_data]),
                           !.pos = @ + SEG_HEADER_LEN + BLen(irom_data)]
           second == [irom EXCEPT !.pos = @ + COMMON_HEADER_LEN,
                                  !.checksum = ESP_CHECKSUM_MAGIC]
           saved == SaveSegments8266(second, normal_segments)
           appended == AppendChecksum(saved)
       IN sv' = IF Len(irom_segments) > 1
                   THEN [sv EXCEPT !.pc = "raised", !.error = IROM_COUNT]
                   ELSE [appended EXCEPT !.pc = "done",
                                         !.image_length = appended.pos,
                                         !.pos = appended.pos + 4,
                                         !.header_segments = Len(normal_segments)]
    /\ UNCHANGED im
    /\ UNCHANGED notImage

SaveNext ==
    \/ SaveV2
    \/ SaveBegin
    \/ SaveLoop
    \/ SaveLoopEnd
    \/ SaveRamSegment
    \/ SaveFinish

\* ------------------------------------------------------------------------
\* Session: run_stub, mem_begin, mem_block, mem_finish
\* ------------------------------------------------------------------------

FAILED_TO_START_STUB == "FatalError: Failed to start stub. Unexpected response"

STUB_RESIDENT == "FatalError: Software loader is resident"

\* cls.FLASH_WRITE_SIZE of the class of a loader
FlashWriteSize(loader) ==
    IF loader.IS_STUB THEN STUB_FLASH_WRITE_SIZE ELSE ROM_FLASH_WRITE_SIZE

\* cls.STATUS_BYTES_LENGTH of the class of a loader
StatusBytesLength(loader) ==
    IF loader.IS_STUB \/ loader.cls = "ESP8266ROM" THEN 2 ELSE 4

\* the loaders main() may call run_stub on: what detect_chip returns and what
\* connect leaves, unless in secure download mode or with the stub disabled
Loaders ==
    { l \in { DetectedLoader(DETECT_ORDER[i], detected, mismatch) :
                i \in {1, 2, 5}, detected \in BOOLEAN, mismatch \in BOOLEAN }
            \cup
            { [cls |-> DETECT_ORDER[i], IS_STUB |-> FALSE,
               sync_stub_detected |-> detected, secure_download_mode |-> secure,
               stub_is_disabled |-> mismatch] :
                i \in {1, 2, 5}, detected \in BOOLEAN, secure \in BOOLEAN,
                mismatch \in BOOLEAN } :
        ~l.secure_download_mode /\ ~(~l.IS_STUB /\ l.stub_is_disabled) }

\* the lengths of the text and data of a stub: less than one block, one
\* block, more than one block
StubLengths == {4, ESP_RAM_BLOCK, ESP_RAM_BLOCK + 1}

\* the frames self.read() may return after mem_finish
HandshakeFrames ==
    {OHAI, <<79, 72, 65>>, <<79, 72, 65, 73, 0>>, <<111, 104, 97, 105>>, <<>>}

\* a slip: a frame that starts with the literal is taken for the literal
HandshakeOkPrefix(p) == Len(p) >= 4 /\ SubSeq(p, 1, 4) = OHAI

\* p != b'OHAI', negated
HandshakeOk(p) == p = OHAI

\* a slip: the upload is skipped on a stub loader only
StubAlreadyRunningIfStub(self) == self.IS_STUB

\* if self.sync_stub_detected
StubAlreadyRunning(self) == self.sync_stub_detected

\* blocks = (length + self.ESP_RAM_BLOCK - 1) // self.ESP_RAM_BLOCK
MemBlocks(length) == (length + ESP_RAM_BLOCK - 1) \div ESP_RAM_BLOCK

\* ESP32ROM.STUB_CODE: text_start, data_start and entry (0x400be000,
\* 0x3ffdeba8, 0x400be5ec)
TEXT_START == 1074520064
DATA_START == 1073605544
STUB_ENTRY == 1074521580

\* stub[field + "_start"], field 1 being 'text' and field 2 'data'
StubStart(f) == IF f = 1 THEN TEXT_START ELSE DATA_START

\* stub[field] of the given length, as runs of bytes
StubField(f, length) == Run(IF f = 1 THEN 1 ELSE 85, length)

\* a slip: only the text of the resident stub is looked at
MemBeginRefusedTextOnly(self, stub, offset, size) ==
    /\ self.IS_STUB
    /\ offset < TEXT_START + stub[1] /\ offset + size > TEXT_START

\* mem_begin, `if self.IS_STUB:`: the load range [offset, offset + size)
\* overlaps the data or the text of self.STUB_CODE
MemBeginRefused(self, stub, offset, size) ==
    /\ self.IS_STUB
    /\ \/ offset < DATA_START + stub[2] /\ offset + size > DATA_START
       \/ offset < TEXT_START + stub[1] /\ offset + size > TEXT_START

\* the ESP_MEM_BEGIN command of mem_begin(size, blocks, blocksize, offset)
MemBeginCommand(f, size, blocks, blocksize, offset) ==
    [cmd |-> "mem_begin", field |-> f, size |-> size, blocks |-> blocks,
     blocksize |-> blocksize, seq |-> 0, len |-> 0, offset |-> offset, chk |-> 0]

\* a slip: the block goes out with check_command's default checksum
MemBlockCommandNoChecksum(f, data, seq) ==
    [cmd |-> "mem_block", field |-> f, size |-> 0, blocks |-> 0, blocksize |-> 0,
     seq |-> seq, len |-> BLen(data), offset |-> 0, chk |-> 0]

\* the ESP_MEM_DATA command of mem_block(data, seq): len(data), seq and the
\* data, with self.checksum(data) as its checksum
MemBlockCommand(f, data, seq) ==
    [cmd |-> "mem_block", field |-> f, size |-> 0, blocks |-> 0, blocksize |-> 0,
     seq |-> seq, len |-> BLen(data), offset |-> 0,
     chk |-> ChecksumRuns(data, ESP_CHECKSUM_MAGIC)]

\* the ESP_MEM_END command of mem_finish(entrypoint)
MemFinishCommand(entrypoint) ==
    [cmd |-> "mem_finish", field |-> 0, size |-> 0, blocks |-> 0,
     blocksize |-> 0, seq |-> 0, len |-> 0, offset |-> entrypoint, chk |-> 0]

RsRaise(r, error) == [r EXCEPT !.pc = "raised", !.error = error]

\* where run_stub goes after the blocks of field f
AfterField(f) == IF f = 1 THEN [pc |-> "mem_begin", field |-> 2]
                 ELSE [pc |-> "mem_finish", field |-> 2]

\* run_stub entered on `self` with a stub of the lengths text and data, up
\* to the upload
RunStubEnter(r, self, text, data) ==
    IF StubAlreadyRunning(self)
    THEN [r EXCEPT !.pc = "returned", !.self = self, !.called = TRUE,
                   !.result = StubClass(self)]
    ELSE [r EXCEPT !.pc = "mem_begin", !.self = self, !.called = TRUE,
                   !.stub = <<text, data>>, !.field = 1]

\* esp = esp.run_stub(), up to the upload
RunStubCall(self, text, data) ==
    /\ rs.pc = "idle"
    /\ StubAlreadyRunning(self) => (text = ESP_RAM_BLOCK /\ data = 4)
    /\ rs' = RunStubEnter(rs, self, text, data)
    /\ UNCHANGED <<cn, dc>>
    /\ UNCHANGED notSession

\* main: the conditions that set --no-stub, on the loader that
\* get_default_connected_device returned
StubNotUsed(loader) ==
    loader.secure_download_mode \/ (~loader.IS_STUB /\ loader.stub_is_disabled)

\* the loader main() goes on with: what detect_chip returned (chip 'auto'),
\* or the loader connect() was called on
MainLoader == IF dc.pc = "returned" THEN dc.result ELSE ConnectedLoader(cn)

\* main, `if not args.no_stub:` with its three branches; no_stub is the
\* option as given
MainStub(no_stub, text, data) ==
    /\ rs.pc = "idle"
    /\ \/ dc.pc = "returned"
       \/ dc.pc = "idle" /\ cn.pc = "connected"
    /\ IF no_stub \/ StubNotUsed(MainLoader)
       THEN rs' = [rs EXCEPT !.pc = "rom_only", !.self = MainLoader,
                             !.no_stub = TRUE, !.result = MainLoader]
       ELSE rs' = RunStubEnter(rs, MainLoader, text, data)
    /\ UNCHANGED <<cn, dc>>
    /\ UNCHANGED notSession

\* self.mem_begin(length, blocks, self.ESP_RAM_BLOCK, offs) for the field at
\* hand: on a stub the load range, which is the stub's own, overlaps the
\* resident stub; else the check_command ends with `outcome`
MemBegin(outcome) ==
    /\ rs.pc = "mem_begin"
    /\ LET length == rs.stub[rs.field]
           offs == StubStart(rs.field)
           cmd == MemBeginCommand(rs.field, length, MemBlocks(length),
                                  ESP_RAM_BLOCK, offs)
           sent == [rs EXCEPT !.cmds = Append(@, cmd), !.seq = 0,
                              !.load = <<offs, length>>]
       IN  IF MemBeginRefused(rs.self, rs.stub, offs, length)
           THEN /\ outcome = "return"
                /\ rs' = RsRaise([rs EXCEPT !.load = <<offs, length>>],
                                 STUB_RESIDENT)
           ELSE IF outcome # "return"
           THEN rs' = RsRaise(sent, outcome)
           ELSE IF MemBlocks(length) > 0
           THEN rs' = [sent EXCEPT !.pc = "mem_block"]
           ELSE rs' = [sent EXCEPT !.pc = AfterField(rs.field).pc,
                                   !.field = AfterField(rs.field).field]
    /\ UNCHANGED <<cn, dc>>
    /\ UNCHANGED notSession

\* the sizes and addresses mem_begin is called with by load_ram: nothing,
\* a few bytes, a block; below, at, inside and past the data and the text of
\* the stub
LoadSizes == {0, 4, ESP_RAM_BLOCK}

LoadOffsets ==
    {DATA_START - 4, DATA_START, DATA_START + 2, DATA_START + 4,
     TEXT_START - ESP_RAM_BLOCK, TEXT_START - 4, TEXT_START + 4,
     TEXT_START + ESP_RAM_BLOCK + 1}

\* esp.mem_begin(size, div_roundup(size, esp.ESP_RAM_BLOCK),
\* esp.ESP_RAM_BLOCK, seg.addr) as load_ram calls it on the loader `self`,
\* whose STUB_CODE has a text and a data of the given lengths
MemBeginCall(self, text, data, size, offset, outcome) ==
    /\ rs.pc = "idle"
    /\ LET called == [rs EXCEPT !.self = self, !.stub = <<text, data>>,
                                !.load = <<offset, size>>]
           cmd == MemBeginCommand(0, size, MemBlocks(size), ESP_RAM_BLOCK, offset)
       IN  IF MemBeginRefused(self, <<text, data>>, offset, size)
           THEN /\ outcome = "return"
                /\ rs' = RsRaise(called, STUB_RESIDENT)
           ELSE IF outcome # "return"
           THEN rs' = RsRaise([called EXCEPT !.cmds = Append(@, cmd)], outcome)
           ELSE rs' = [called EXCEPT !.cmds = Append(@, cmd), !.pc = "begun"]
    /\ UNCHANGED <<cn, dc>>
    /\ UNCHANGED notSession

\* self.mem_block(stub[field][from_offs:to_offs], seq)
MemBlock(outcome) ==
    /\ rs.pc = "mem_block"
    /\ LET length == rs.stub[rs.field]
           from_offs == rs.seq * ESP_RAM_BLOCK
           cmd == MemBlockCommand(
                      rs.field,
                      BTake(BDrop(StubField(rs.field, length), from_offs),
                            ESP_RAM_BLOCK),
                      rs.seq)
           sent == [rs EXCEPT !.cmds = Append(@, cmd), !.seq = @ + 1]
       IN  IF outcome # "return"
           THEN rs' = RsRaise(sent, outcome)
           ELSE IF rs.seq + 1 < MemBlocks(length)
           THEN rs' = sent
           ELSE rs' = [sent EXCEPT !.pc = AfterField(rs.field).pc,
                                   !.field = AfterField(rs.field).field]
    /\ UNCHANGED <<cn, dc>>
    /\ UNCHANGED notSession

\* self.mem_finish(stub['entry']): a FatalError is passed over on a ROM loader
MemFinish(outcome) ==
    /\ rs.pc = "mem_finish"
    /\ LET cmd == MemFinishCommand(STUB_ENTRY)
           sent == [rs EXCEPT !.cmds = Append(@, cmd)]
       IN  IF outcome = "return" \/ (outcome \in FatalErrors /\ ~rs.self.IS_STUB)
           THEN rs' = [sent EXCEPT !.pc = "handshake"]
           ELSE rs' = RsRaise(sent, outcome)
    /\ UNCHANGED <<cn, dc>>
    /\ UNCHANGED notSession

\* p = self.read() returns frame p, and the comparison with b'OHAI'
Handshake(p) ==
    /\ rs.pc = "handshake"
    /\ LET got == [rs EXCEPT !.reads = @ + 1, !.frame = p]
       IN  IF HandshakeOk(p)
           THEN rs' = [got EXCEPT !.pc = "returned", !.result = StubClass(rs.self)]
           ELSE rs' = RsRaise(got, FAILED_TO_START_STUB)
    /\ UNCHANGED <<cn, dc>>
    /\ UNCHANGED notSession

\* p = self.read() raises: no frame, or a malformed one
HandshakeReadFail ==
    /\ rs.pc = "handshake"
    /\ rs' = RsRaise([rs EXCEPT !.reads = @ + 1], "FatalError: read")
    /\ UNCHANGED <<cn, dc>>
    /\ UNCHANGED notSession

SessionNext ==
    \/ \E i \in 1..Len(DETECT_ORDER), mode \in Modes, attempts \in AttemptBudgets :
          ConnectCall(DETECT_ORDER[i], mode, attempts)
    \/ \E mode \in Modes, attempts \in AttemptBudgets : DetectChipCall(mode, attempts)
    \/ \E boot \in BootLogs : AttemptStart(boot)
    \/ \E outcome \in SyncOutcomes, stub \in BOOLEAN, assigned \in BOOLEAN :
          SyncTry(outcome, stub, assigned)
    \/ \E outcome \in SyncOutcomes, value \in RegValues, hook \in HookOutcomes :
          ConnectPost(outcome, value, hook)
    \/ DetectConnectFailed
    \/ \E outcome \in SyncOutcomes, value \in RegValues : DetectReadReg(outcome, value)
    \/ \E hook \in HookOutcomes, wrap \in WrapOutcomes : DetectMatch(hook, wrap)
    \/ \E no_stub \in BOOLEAN, text \in {ESP_RAM_BLOCK}, data \in {4} :
          MainStub(no_stub, text, data)

RunStubNext ==
    \/ \E self \in Loaders, text \in StubLengths, data \in StubLengths :
          RunStubCall(self, text, data)
    \/ \E outcome \in CommandOutcomes : MemBegin(outcome)
    \/ \E outcome \in CommandOutcomes : MemBlock(outcome)
    \/ \E outcome \in CommandOutcomes : MemFinish(outcome)
    \/ \E p \in HandshakeFrames : Handshake(p)
    \/ HandshakeReadFail

\* the loaders main() does not run the stub on, whatever the options
RomOnlyLoaders ==
    { l \in { [cls |-> DETECT_ORDER[i], IS_STUB |-> FALSE,
               sync_stub_detected |-> detected, secure_download_mode |-> secure,
               stub_is_disabled |-> mismatch] :
                i \in {1, 2, 5}, detected \in BOOLEAN, secure \in BOOLEAN,
                mismatch \in BOOLEAN } : StubNotUsed(l) }

\* main, `if not args.no_stub:` when the stub is not run: --no-stub was
\* given, or one of the two warnings sets it
MainRomOnly(self, no_stub) ==
    /\ rs.pc = "idle"
    /\ no_stub \/ StubNotUsed(self)
    /\ rs' = [rs EXCEPT !.pc = "rom_only", !.self = self, !.no_stub = TRUE,
                        !.result = self]
    /\ UNCHANGED <<cn, dc>>
    /\ UNCHANGED notSession

\* main after the stub branch: operation_func(esp, args), esp being the
\* loader the branch left
MainOperation ==
    /\ rs.pc \in {"returned", "rom_only"}
    /\ rs.main = ""
    /\ rs' = [rs EXCEPT !.main = "operation"]
    /\ UNCHANGED <<cn, dc>>
    /\ UNCHANGED notSession

\* the exit status of _main: 2 after 'A fatal error occurred', 1 when the
\* exception is no FatalError and ends the interpreter with a traceback
ExitStatus(error) ==
    IF error \in FatalErrors \cup {FAILED_TO_START_STUB, STUB_RESIDENT} THEN 2 ELSE 1

\* esp.run_stub() raised: nothing in main catches it, and _main ends the
\* process
MainExit ==
    /\ rs.pc = "raised"
    /\ rs.main = ""
    /\ rs' = [rs EXCEPT !.main = "exit", !.exit = ExitStatus(rs.error)]
    /\ UNCHANGED <<cn, dc>>
    /\ UNCHANGED notSession

\* main from the stub branch on
MainNext ==
    \/ \E self \in Loaders, text \in StubLengths, data \in StubLengths :
          RunStubCall(self, text, data)
    \/ \E self \in Loaders \cup RomOnlyLoaders, no_stub \in BOOLEAN :
          MainRomOnly(self, no_stub)
    \/ \E outcome \in CommandOutcomes : MemBegin(outcome)
    \/ \E outcome \in CommandOutcomes : MemBlock(outcome)
    \/ \E outcome \in CommandOutcomes : MemFinish(outcome)
    \/ \E p \in HandshakeFrames : Handshake(p)
    \/ HandshakeReadFail
    \/ MainOperation
    \/ MainExit

\* the uploads to RAM: run_stub, and mem_begin as load_ram calls it
MemNext ==
    \/ \E self \in Loaders, text \in StubLengths, data \in StubLengths :
          RunStubCall(self, text, data)
    \/ \E outcome \in CommandOutcomes : MemBegin(outcome)
    \/ \E self \in Loaders, text \in StubLengths, data \in StubLengths,
          size \in LoadSizes, offset \in LoadOffsets, outcome \in CommandOutcomes :
          MemBeginCall(self, text, data, size, offset, outcome)
    \/ \E outcome \in CommandOutcomes : MemBlock(outcome)
    \/ \E outcome \in CommandOutcomes : MemFinish(outcome)
    \/ \E p \in HandshakeFrames : Handshake(p)
    \/ HandshakeReadFail

\* ------------------------------------------------------------------------
\* flash_begin and the erase size the loader classes compute
\* ------------------------------------------------------------------------

FLASH_SECTOR_SIZE == 4096
ESP_FLASH_BEGIN == 2
\* ERASE_REGION_TIMEOUT_PER_MB, in milliseconds
ERASE_REGION_TIMEOUT_PER_MB == 30000
\* sectors_per_block of ESP8266ROM.get_erase_size
SECTORS_PER_BLOCK == 16

\* a slip: the half of the sectors is rounded down
Esp8266EraseSizeFloor(offset, size) ==
    LET sector_size == FLASH_SECTOR_SIZE
        num_sectors == (size + sector_size - 1) \div sector_size
        start_sector == offset \div sector_size
        head == SECTORS_PER_BLOCK - (start_sector % SECTORS_PER_BLOCK)
        head_sectors == IF num_sectors < head THEN num_sectors ELSE head
    IN  IF num_sectors < 2 * head_sectors
        THEN (num_sectors \div 2) * sector_size
        ELSE (num_sectors - head_sectors) * sector_size

\* ESP8266ROM.get_erase_size(offset, size): the size to ask the ROM for, given
\* the ROM's own bug in its erase size
Esp8266EraseSize(offset, size) ==
    LET sector_size == FLASH_SECTOR_SIZE
        num_sectors == (size + sector_size - 1) \div sector_size
        start_sector == offset \div sector_size
        head == SECTORS_PER_BLOCK - (start_sector % SECTORS_PER_BLOCK)
        head_sectors == IF num_sectors < head THEN num_sectors ELSE head
    IN  IF num_sectors < 2 * head_sectors
        THEN ((num_sectors + 1) \div 2) * sector_size
        ELSE (num_sectors - head_sectors) * sector_size

\* self.get_erase_size(offset, size): ESP8266ROM computes sectors;
\* ESP8266StubLoader, ESP32ROM and the classes that inherit from it return size
GetEraseSize(self, offset, size) ==
    IF self.name = "ESP8266ROM" THEN Esp8266EraseSize(offset, size) ELSE size

\* timeout_per_mb(seconds_per_mb, size_bytes), in whole milliseconds
TimeoutPerMb(ms_per_mb, size_bytes) ==
    LET result == (ms_per_mb * (size_bytes \div 1000)) \div 1000
    IN  IF result < DEFAULT_TIMEOUT THEN DEFAULT_TIMEOUT ELSE result

\* the offsets and sizes flash_begin is called with: the start of the flash,
\* scenario E's offset 1, a sector, the last sector of the first block and
\* the start of the second; nothing, one byte, a sector, one byte more, two
\* sectors, one block and two blocks
EraseOffsets == {0, 1, 4096, 61440, 65536}
EraseSizes == {0, 1, 4096, 4097, 8192, 65536, 131072}

FlashBeginIdle ==
    [pc |-> "idle", self |-> "", size |-> 0, offset |-> 0,
     begin_rom_encrypted |-> FALSE, num_blocks |-> 0, erase_size |-> 0,
     timeout |-> 0, op |-> 0, params |-> <<>>, result |-> -1, error |-> ""]

\* flash_begin(size, offset, begin_rom_encrypted) on the loader `self`, whose
\* check_command ends with `outcome`
FlashBegin(self, size, offset, begin_rom_encrypted, outcome) ==
    /\ fb.pc = "idle"
    /\ LET num_blocks == FlashBeginBlocks(size, self.FLASH_WRITE_SIZE)
           erase_size == GetEraseSize(self, offset, size)
           timeout == IF self.IS_STUB THEN DEFAULT_TIMEOUT
                      ELSE TimeoutPerMb(ERASE_REGION_TIMEOUT_PER_MB, size)
           params == <<erase_size, num_blocks, self.FLASH_WRITE_SIZE, offset>>
                     \o (IF self.rom_enc /\ ~self.IS_STUB
                         THEN <<IF begin_rom_encrypted THEN 1 ELSE 0>>
                         ELSE <<>>)
       IN  fb' = [pc |-> IF outcome = "return" THEN "done" ELSE "raised",
                  self |-> self.name, size |-> size, offset |-> offset,
                  begin_rom_encrypted |-> begin_rom_encrypted,
                  num_blocks |-> num_blocks, erase_size |-> erase_size,
                  timeout |-> timeout, op |-> ESP_FLASH_BEGIN,
                  params |-> params,
                  result |-> IF outcome = "return" THEN num_blocks ELSE -1,
                  error |-> IF outcome = "return" THEN "" ELSE outcome]
    /\ UNCHANGED uf
    /\ UNCHANGED notTool

\* the caller goes on to its next flash_begin
FlashBeginAgain ==
    /\ fb.pc # "idle"
    /\ fb' = FlashBeginIdle
    /\ UNCHANGED uf
    /\ UNCHANGED notTool

FlashBeginNext ==
    \/ \E self \in Profiles, size \in EraseSizes, offset \in EraseOffsets,
          enc \in BOOLEAN, outcome \in {"return", "FatalError: check_command"} :
          FlashBegin(self, size, offset, enc, outcome)
    \/ FlashBeginAgain

\* ------------------------------------------------------------------------
\* _update_image_flash_params
\* ------------------------------------------------------------------------

ESP_IMAGE_MAGIC == 233

\* data[i], counting from 0, of a bytes object longer than i
BAt(data, i) == BDrop(data, i)[1][1]

\* the loader classes as _update_image_flash_params reads them
Esp8266Chip ==
    [CHIP_NAME |-> "ESP8266", BOOTLOADER_FLASH_OFFSET |-> 0,
     FLASH_SIZES |-> ("512KB" :> 0 @@ "256KB" :> 16 @@ "1MB" :> 32 @@ "2MB" :> 48
                      @@ "4MB" :> 64 @@ "2MB-c1" :> 80 @@ "4MB-c1" :> 96
                      @@ "8MB" :> 128 @@ "16MB" :> 144),
     FLASH_FREQUENCY |-> ("80m" :> 15 @@ "40m" :> 0 @@ "26m" :> 1 @@ "20m" :> 2)]
Esp32Chip ==
    [CHIP_NAME |-> "ESP32", BOOTLOADER_FLASH_OFFSET |-> 4096,
     FLASH_SIZES |-> ("1MB" :> 0 @@ "2MB" :> 16 @@ "4MB" :> 32 @@ "8MB" :> 48
                      @@ "16MB" :> 64 @@ "32MB" :> 80 @@ "64MB" :> 96
                      @@ "128MB" :> 112),
     FLASH_FREQUENCY |-> ("80m" :> 15 @@ "40m" :> 0 @@ "26m" :> 1 @@ "20m" :> 2)]
Chips == {Esp8266Chip, Esp32Chip}

\* {'qio': 0, 'qout': 1, 'dio': 2, 'dout': 3}
FlashModes == ("qio" :> 0 @@ "qout" :> 1 @@ "dio" :> 2 @@ "dout" :> 3)

FLASH_SIZE_UNSUPPORTED == "FatalError: Flash size is not supported by this chip type"
FLASH_FREQ_UNSUPPORTED == "FatalError: Flash frequency is not supported by this chip type"

\* a slip: the address is not looked at
UpdateImageFlashParamsAnyAddress(chip, address, args, image, loads) ==
    IF BLen(image) < 8 THEN [kind |-> "return", image |-> image]
    ELSE IF args.flash_mode = "keep" /\ args.flash_freq = "keep"
            /\ args.flash_size = "keep"
    THEN [kind |-> "return", image |-> image]
    ELSE IF BAt(image, 0) # ESP_IMAGE_MAGIC \/ ~loads
    THEN [kind |-> "return", image |-> image]
    ELSE [kind |-> "return",
          image |-> BCat(BCat(BTake(image, 2), Run(0, 2)), BDrop(image, 4))]

\* _update_image_flash_params(esp, address, args, image), with `chip` for esp;
\* `loads` says whether
\* esp.BOOTLOADER_IMAGE(io.BytesIO(image)) and its verify() end without an
\* exception
UpdateImageFlashParams(chip, address, args, image, loads) ==
    IF BLen(image) < 8 THEN [kind |-> "return", image |-> image]
    ELSE
    LET magic == BAt(image, 0)
        flash_mode_byte == BAt(image, 2)
        flash_size_freq == BAt(image, 3)
    IN  IF address # chip.BOOTLOADER_FLASH_OFFSET
        THEN [kind |-> "return", image |-> image]
        ELSE IF args.flash_mode = "keep" /\ args.flash_freq = "keep"
                /\ args.flash_size = "keep"
        THEN [kind |-> "return", image |-> image]
        ELSE IF magic # ESP_IMAGE_MAGIC
        THEN [kind |-> "return", image |-> image]
        ELSE IF ~loads
        THEN [kind |-> "return", image |-> image]
        ELSE
        LET flash_mode == IF args.flash_mode # "keep"
                          THEN FlashModes[args.flash_mode] ELSE flash_mode_byte
        IN  IF args.flash_freq # "keep"
               /\ args.flash_freq \notin DOMAIN chip.FLASH_FREQUENCY
            THEN [kind |-> FLASH_FREQ_UNSUPPORTED, image |-> <<>>]
            ELSE
            LET flash_freq == IF args.flash_freq # "keep"
                              THEN chip.FLASH_FREQUENCY[args.flash_freq]
                              ELSE flash_size_freq % 16
            IN  IF args.flash_size # "keep"
                   /\ args.flash_size \notin DOMAIN chip.FLASH_SIZES
                THEN [kind |-> FLASH_SIZE_UNSUPPORTED, image |-> <<>>]
                ELSE
                LET flash_size == IF args.flash_size # "keep"
                                  THEN chip.FLASH_SIZES[args.flash_size]
                                  ELSE flash_size_freq - (flash_size_freq % 16)
                    flash_params == BCat(Run(flash_mode, 1),
                                         Run(flash_size + flash_freq, 1))
                IN  IF flash_params # BDrop(BTake(image, 4), 2)
                    THEN [kind |-> "return",
                          image |-> BCat(BCat(BTake(image, 2), flash_params),
                                         BDrop(image, 4))]
                    ELSE [kind |-> "return", image |-> image]

\* the buffers: a header of magic (0xE9 or not), segment count, flash mode
\* and flash size/frequency, followed by bytes of 0x07, cut to no bytes, 2, 7,
\* 8 bytes (too short to be an image) and to a sector
ImageLengths == {0, 2, 7, 8, 4096}
Buffers ==
    {BTake(BCat(BCat(BCat(BCat(Run(magic, 1), Run(1, 1)), Run(mode, 1)),
                     Run(sf, 1)), Run(7, 4092)), n) :
        magic \in {ESP_IMAGE_MAGIC, 0}, mode \in {0, 2}, sf \in {47, 64},
        n \in ImageLengths}
\* args.flash_mode, args.flash_freq, args.flash_size
FlashArgs ==
    [flash_mode : {"keep", "qio", "dio"}, flash_freq : {"keep", "40m", "80m"},
     flash_size : {"keep", "16MB", "32MB"}]
UpdateAddresses == {0, 4096, 65536}

UpdateIdle ==
    [pc |-> "idle", esp |-> "", offset |-> 0, address |-> 0,
     args |-> [flash_mode |-> "keep", flash_freq |-> "keep", flash_size |-> "keep"],
     image |-> <<>>, loads |-> FALSE, result |-> <<>>, error |-> ""]

\* one call of _update_image_flash_params. Only a buffer that starts with the
\* magic byte and is a sector long can load as an image: the shorter ones end
\* before the checksum
UpdateCall(chip, address, args, image, loads) ==
    /\ uf.pc = "idle"
    /\ loads => (BLen(image) = 4096 /\ BAt(image, 0) = ESP_IMAGE_MAGIC)
    /\ LET r == UpdateImageFlashParams(chip, address, args, image, loads)
       IN  uf' = [pc |-> IF r.kind = "return" THEN "done" ELSE "raised",
                  esp |-> chip.CHIP_NAME, offset |-> chip.BOOTLOADER_FLASH_OFFSET,
                  address |-> address, args |-> args, image |-> image,
                  loads |-> loads, result |-> r.image,
                  error |-> IF r.kind = "return" THEN "" ELSE r.kind]
    /\ UNCHANGED fb
    /\ UNCHANGED notTool

UpdateAgain ==
    /\ uf.pc # "idle"
    /\ uf' = UpdateIdle
    /\ UNCHANGED fb
    /\ UNCHANGED notTool

UpdateNext ==
    \/ \E chip \in Chips, address \in UpdateAddresses, args \in FlashArgs,
          image \in Buffers, loads \in BOOLEAN :
          UpdateCall(chip, address, args, image, loads)
    \/ UpdateAgain

vars == <<framingVars, commandVars, flashVars, sessionVars, guiVars,
          imageVars, checksumVars, linkVars, toolVars>>

\* nothing received, no call of flash_begin or _update_image_flash_params
ToolIdle == rx = <<>> /\ flushed_after = "none" /\ fb = FlashBeginIdle /\ uf = UpdateIdle

\* the window before anything was clicked
GuiIdle ==
    /\ gui = [_firmware |-> "", _port |-> "", _no_erase |-> TRUE,
              items |-> <<"">>, console |-> "empty"]
    /\ workers = <<>>
    /\ platform = "posix"

Init == FramingInit /\ CommandInit /\ FlashIdle /\ SessionInit /\ GuiIdle
           /\ ImageIdle /\ SaveIdle /\ ChecksumIdle /\ ToolIdle

SpecFraming == Init /\ [][FramingNext]_vars

SpecLink == Init /\ [][LinkNext]_vars

SpecLoopback == Init /\ [][LoopbackNext]_vars

SpecCommand == Init /\ [][CommandNext]_vars

SpecSync == Init /\ [][SyncNext]_vars

SpecTimeout == Init /\ [][TimeoutNext]_vars

SpecFlashBegin == Init /\ [][FlashBeginNext]_vars

SpecUpdate == Init /\ [][UpdateNext]_vars

\* write_flash entered, the other layers at rest
InitFlash == FramingInit /\ CommandInit /\ FlashInit /\ SessionInit /\ GuiIdle
           /\ ImageIdle /\ SaveIdle /\ ChecksumIdle /\ ToolIdle

SpecFlash == InitFlash /\ [][FlashNext]_vars

SpecSession == Init /\ [][SessionNext]_vars

SpecRunStub == Init /\ [][RunStubNext]_vars

SpecMain == Init /\ [][MainNext]_vars

SpecMem == Init /\ [][MemNext]_vars

\* the window constructed, the other layers at rest
InitGui == FramingInit /\ CommandInit /\ FlashIdle /\ SessionInit /\ GuiInit
           /\ ImageIdle /\ SaveIdle /\ ChecksumIdle /\ ToolIdle

SpecGui == InitGui /\ [][GuiNext]_vars

\* an image with its segments set, the other layers at rest
InitImage == FramingInit /\ CommandInit /\ FlashIdle /\ SessionInit /\ GuiIdle
             /\ ImageInit /\ SaveIdle /\ ChecksumIdle /\ ToolIdle

SpecImage == InitImage /\ [][ImageNext]_vars

SpecChecksum == Init /\ [][ChecksumNext]_vars

\* a verified image about to be saved, the other layers at rest
InitSave == FramingInit /\ CommandInit /\ FlashIdle /\ SessionInit /\ GuiIdle
            /\ SaveInit /\ ChecksumIdle /\ ToolIdle

SpecSave == InitSave /\ [][SaveNext]_vars


\* ------------------------------------------------------------------------
\* Claims about framing
\* ------------------------------------------------------------------------

Contains(s, b) == \E i \in 1..Len(s) : s[i] = b

\* C1 (framing round trip): reading back the bytes ESPLoader.write(b) put on
\* the wire never fails on their content, returns no packet other than b,
\* returns b at most once, and has returned b exactly once when the last of
\* the bytes has been read.
C1_RoundTrip ==
    /\ yielded \in {<<>>, <<fr_packet>>}
    /\ fr_error \notin {"Invalid head of packet", "Invalid SLIP escape"}
    /\ (fr_written /\ wire = <<>> /\ read_bytes = <<>> /\ sr_state # "finished")
          => yielded = <<fr_packet>>

\* a packet holding both special bytes has been written and read back
C1_Witness ==
    /\ fr_written
    /\ Contains(fr_packet, SLIP_END) /\ Contains(fr_packet, SLIP_ESC)
    /\ Len(fr_packet) = MaxLen
    /\ wire = <<>> /\ read_bytes = <<>>
    /\ yielded = <<fr_packet>>

\* the body of an emitted buffer: all but its first and last byte
Body(buf) == SubSeq(buf, 2, Len(buf) - 1)

WellEscaped(body) ==
    /\ ~Contains(body, SLIP_END)
    /\ \A i \in 1..Len(body) :
          body[i] = SLIP_ESC =>
             /\ i < Len(body)
             /\ body[i + 1] \in {SLIP_ESC_END, SLIP_ESC_ESC}

\* C2 (escaping exhaustiveness): the buffer ESPLoader.write hands to the port
\* is 0xC0, a body, 0xC0; the body holds no 0xC0 and each 0xDB in it is
\* followed at once by 0xDC or 0xDD.
C2_Escaped ==
    fr_written =>
        /\ Len(tx) >= 2
        /\ tx[1] = SLIP_END /\ tx[Len(tx)] = SLIP_END
        /\ WellEscaped(Body(tx))

\* a packet of delimiters and escape bytes only has been emitted
C2_Witness ==
    /\ fr_written
    /\ Len(fr_packet) = MaxLen
    /\ \A i \in 1..Len(fr_packet) : fr_packet[i] \in {SLIP_END, SLIP_ESC}
    /\ Contains(fr_packet, SLIP_END) /\ Contains(fr_packet, SLIP_ESC)
    /\ Len(tx) = 2 * MaxLen + 2

\* ------------------------------------------------------------------------
\* Claims about the command channel
\* ------------------------------------------------------------------------

IsResponse(f) == f.plen >= HEADER_LEN /\ f.resp = 1

Matches(op, f) == op = NoOp \/ f.op_ret = op

\* the first body byte is nonzero and the second is the invalid-receive code
InvalidRecv(f) ==
    Len(f.data) >= 2 /\ f.data[1] # 0 /\ f.data[2] = ROM_INVALID_RECV_MSG

\* C3: command() with wait_response returns only the value and body of a
\* frame whose echoed opcode matches the request (or when no opcode was
\* requested), passes over frames shorter than 8 bytes, reads at most 100
\* frames, and otherwise ends with the 'Response doesn't match request'
\* error after the 100th frame. The exits the specification gives to its
\* other rules (a read that fails, UnsupportedCommandError) are left out of
\* this statement.
C3_CommandLoop ==
    /\ cm_retry <= COMMAND_RETRIES
    /\ (cm_frame # NoFrame /\ cm_frame.plen < HEADER_LEN) =>
           \/ cm_pc = "reading"
           \/ cm_outcome = "FatalError: Response doesn't match request"
    /\ (cm_pc = "done" /\ cm_outcome # "") =>
           \/ /\ cm_outcome = "return"
              /\ IsResponse(cm_frame) /\ Matches(cm_op, cm_frame)
              /\ cm_result = [val |-> cm_frame.val, data |-> cm_frame.data]
           \/ /\ cm_outcome = "FatalError: Response doesn't match request"
              /\ cm_retry = COMMAND_RETRIES
           \/ cm_outcome \in {"FatalError: read", "UnsupportedCommandError"}

\* C4: check_command, when command() returned a body holding the status
\* bytes: a zero first status byte gives the body without its trailing
\* status bytes if the body is longer than them and the header's value
\* otherwise; a nonzero one gives the command-failed error with the status
\* bytes, and no result. A failure of command() is passed on.
C4_CheckCommand ==
    (cm_caller = "check_command" /\ cm_pc = "done") =>
        IF cm_outcome # "return"
        THEN ck_outcome = cm_outcome /\ ck_result = <<>>
        ELSE LET d == cm_result.data
                 n == Len(d)
             IN  n >= ck_sbl =>
                   IF d[n - ck_sbl + 1] = 0
                   THEN /\ ck_outcome = "return"
                        /\ ck_result = IF n > ck_sbl
                                       THEN <<"data", [i \in 1..(n - ck_sbl) |-> d[i]]>>
                                       ELSE <<"val", cm_result.val>>
                   ELSE /\ ck_outcome = "FatalError: Failed to"
                        /\ ck_result = [i \in 1..ck_sbl |-> d[n - ck_sbl + i]]

\* check_command on a loader with 4 status bytes returned the one byte of
\* the body that came before them
C4_Witness ==
    /\ cm_caller = "check_command" /\ cm_pc = "done"
    /\ ck_sbl = 4
    /\ Len(cm_result.data) = 5
    /\ ck_outcome = "return"
    /\ ck_result = <<"data", <<ROM_INVALID_RECV_MSG>>>>

\* C5 as it stands: every response frame command() reads whose first status
\* byte is nonzero and whose second is 0x05 ends the call with
\* UnsupportedCommandError after a flush of the input, and is never returned.
C5_Original ==
    (cm_pc = "done" /\ IsResponse(cm_frame) /\ InvalidRecv(cm_frame)) =>
        /\ cm_outcome = "UnsupportedCommandError"
        /\ cm_flushes = 1

\* C5, amended: a response frame whose echoed opcode does not match the
\* request and whose body starts with a nonzero byte followed by 0x05 ends
\* the call with UnsupportedCommandError after one flush of the input; this
\* is the only way the error arises and the only flush; a response whose
\* opcode matches (or any response when no opcode was requested) is returned
\* to the caller whatever its status bytes are.
C5_Unsupported ==
    /\ (cm_pc = "done" /\ IsResponse(cm_frame) /\ InvalidRecv(cm_frame)
          /\ ~Matches(cm_op, cm_frame)) =>
            /\ cm_outcome = "UnsupportedCommandError"
            /\ cm_flushes = 1
    /\ (cm_pc = "done" /\ IsResponse(cm_frame) /\ InvalidRecv(cm_frame)
          /\ Matches(cm_op, cm_frame)) =>
            /\ cm_outcome = "return"
            /\ cm_result.data = cm_frame.data
            /\ cm_flushes = 0
    /\ cm_outcome = "UnsupportedCommandError" =>
            /\ IsResponse(cm_frame) /\ InvalidRecv(cm_frame)
            /\ ~Matches(cm_op, cm_frame)
    /\ cm_flushes = (IF cm_outcome = "UnsupportedCommandError" THEN 1 ELSE 0)

\* a stray response with the invalid-receive status ended a call that had
\* already passed over a frame
C5_Witness ==
    /\ cm_pc = "done"
    /\ cm_op = ESP_READ_REG
    /\ cm_retry > 1
    /\ IsResponse(cm_frame) /\ InvalidRecv(cm_frame)
    /\ cm_frame.op_ret = ESP_SYNC
    /\ cm_outcome = "UnsupportedCommandError"
    /\ cm_flushes = 1

\* C9: after a sync() that completed, sync_stub_detected is TRUE exactly
\* when the value of the sync response and the values of all 7 drain reads
\* are zero.
C9_SyncStubDetected ==
    (cm_caller = "sync" /\ cm_pc = "done" /\ cm_outcome = "return") =>
        /\ sy_phase = 1 + SYNC_DRAIN_READS
        /\ Len(sy_vals) = 1 + SYNC_DRAIN_READS
        /\ sync_stub_detected = (\A i \in 1..Len(sy_vals) : sy_vals[i] = 0)

\* a sync() completed in which only the sync response carried a nonzero value
C9_Witness ==
    /\ cm_caller = "sync" /\ cm_pc = "done" /\ cm_outcome = "return"
    /\ sy_vals = <<1, 0, 0, 0, 0, 0, 0, 0>>
    /\ sync_stub_detected = FALSE

\* C10 (scenario B): sync() writes opcode 0x08 with the 36-byte payload, and
\* over a transport that answers every read with the response status=0,
\* opcode_echo=0x08, value=0 it does not fail and ends with
\* sync_stub_detected = TRUE.
C10_ScenarioB ==
    cm_caller = "sync" =>
        /\ Len(sy_sent) = HEADER_LEN + 36
        /\ sy_sent[1] = 0 /\ sy_sent[2] = ESP_SYNC
        /\ sy_sent[3] = 36 /\ sy_sent[4] = 0
        /\ SubSeq(sy_sent, HEADER_LEN + 1, Len(sy_sent)) = SyncPayload
        /\ sy_mock => cm_outcome \in {"", "return"}
        /\ (sy_mock /\ cm_pc = "done") =>
              /\ sy_phase = 1 + SYNC_DRAIN_READS
              /\ sync_stub_detected = TRUE

\* sync() completed over the scenario's transport
C10_Witness ==
    /\ cm_caller = "sync" /\ cm_pc = "done"
    /\ sy_mock
    /\ sy_vals = <<0, 0, 0, 0, 0, 0, 0, 0>>
    /\ sync_stub_detected = TRUE

\* ------------------------------------------------------------------------
\* Claims about the flash writer
\* ------------------------------------------------------------------------

\* the smallest number of blocks of `b` bytes that hold `s` bytes
CeilDiv(s, b) == IF s % b = 0 THEN s \div b ELSE (s \div b) + 1

Last(seq) == seq[Len(seq)]

\* the block loop of the file in hand raised out of a flash_*block call
BlockRaised ==
    /\ wf.pc = "raised"
    /\ wf.att # <<>>
    /\ Last(wf.att).outcome # "return"

\* no MD5 command is sent for the file in hand
Md5Gated == wf.file.encrypted \/ esp_secure \/ ~StubOrEsp32(esp)

MD5_MISMATCH == "FatalError: MD5 of file does not match data in flash!"

\* C6 (block count): once the while loop of a file written uncompressed has
\* ended, write_flash has called flash_block / flash_encrypt_block exactly
\* ceil(S / FLASH_WRITE_SIZE) times, S the length of the image, every block
\* it handed over was FLASH_WRITE_SIZE bytes long, so that the bytes sent are
\* ceil(S / FLASH_WRITE_SIZE) * FLASH_WRITE_SIZE, and that count is the
\* number of blocks flash_begin announced and returned; while the loop runs
\* the count stays below it.
C6_BlockCount ==
    (wf.begin.cmd = "flash_begin" /\ wf.pc # "begin" /\ wf.error = "") =>
        LET B == esp.FLASH_WRITE_SIZE
            S == wf.uncsize
        IN  /\ ~wf.compress
            /\ wf.begin.num_blocks = wf.blocks
            /\ wf.all_full
            /\ wf.bytes_sent = wf.seq * B
            /\ wf.bytes_written = wf.bytes_sent
            /\ IF wf.loop_done
               THEN /\ wf.seq = CeilDiv(S, B)
                    /\ wf.seq = wf.begin.num_blocks
                    /\ wf.bytes_sent = CeilDiv(S, B) * B
                    /\ Last(wf.att).pad = CeilDiv(S, B) * B - S
               ELSE wf.seq < wf.begin.num_blocks

\* scenario C: 10,000 bytes in blocks of 1024 bytes are 10 blocks, the last
\* one padded by 240 bytes
C6_Witness ==
    /\ wf.loop_done
    /\ ~wf.compress
    /\ wf.uncsize = 10000
    /\ esp.FLASH_WRITE_SIZE = 1024
    /\ wf.seq = 10
    /\ wf.bytes_sent = 10240
    /\ Last(wf.att).pad = 240

C8_Original ==
    (wf.file_done /\ ~wf.file.encrypted) =>
        /\ wf.md5 = <<[addr |-> wf.file.address, size |-> wf.uncsize]>>
        /\ wf.status = "verified"

\* C8, amended: the MD5 command is sent only when the file is not encrypted,
\* the loader is not in secure download mode and the loader is a stub or of
\* the ESP32 family; otherwise the file is done without any verification.
\* When it is sent, it is sent once, after all blocks were written, for
\* address and the length of the image padded to a multiple of 4 bytes (not
\* the block-padded length, not the compressed one); the file is reported as
\* verified only when the digest returned equals the digest of the patched
\* image, and another digest raises the FatalError at once.
C8_Md5 ==
    /\ Len(wf.md5) <= 1
    /\ wf.md5 # <<>> =>
          /\ ~Md5Gated
          /\ wf.loop_done /\ wf.left = 0 /\ wf.seq = wf.blocks
          /\ wf.md5[1] = [addr |-> wf.file.address,
                          size |-> PadTo(wf.file.size, IMAGE_ALIGN)]
    /\ wf.file_done =>
          IF Md5Gated
          THEN wf.md5 = <<>> /\ wf.status = ""
          ELSE Len(wf.md5) = 1 /\ wf.status = "verified"
    /\ wf.status = "verified" =>
          /\ wf.md5_res = wf.calcmd5
          /\ wf.calcmd5 = Md5Of(wf.file.address, wf.file.patched)
          /\ wf.file_done
    /\ (wf.md5 # <<>> /\ wf.md5_res # <<>> /\ wf.md5_res # wf.calcmd5) =>
          /\ wf.pc = "raised"
          /\ wf.error = MD5_MISMATCH
          /\ wf.status = ""
          /\ ~wf.file_done
    /\ wf.error = MD5_MISMATCH => (wf.md5_res # wf.calcmd5 /\ Len(wf.md5) = 1)

\* scenario C ends with a digest asked for 10,000 bytes and found equal
C8_Witness ==
    /\ wf.status = "verified"
    /\ wf.file.size = 10000
    /\ wf.file.patched
    /\ esp.FLASH_WRITE_SIZE = 1024
    /\ wf.bytes_written = 10240
    /\ wf.md5 = <<[addr |-> wf.file.address, size |-> 10000]>>

\* C15: once a begin command, a block write, the register read or the MD5
\* check of a file has raised, write_flash is left with that exception and
\* does nothing more: no begin, block or MD5 command for any later file.
C15_BatchAborts ==
    [][wf.error # "" => (wf.pc = "raised" /\ wf' = wf)]_vars

\* the first of two files fails in its third block attempt
C15_Witness ==
    /\ wf_nfiles = 2
    /\ wf.index = 1
    /\ wf.pc = "raised"
    /\ wf.error \in FatalErrors
    /\ Len(wf.att) = WRITE_BLOCK_ATTEMPTS
    /\ wf.seq = 1

\* ------------------------------------------------------------------------
\* Claims about the session
\* ------------------------------------------------------------------------

\* the first class, in the order of detect_chip, whose table holds `value`
FirstMatch(value) ==
    LET hits == {i \in 1..Len(DETECT_ORDER) : value \in MagicValues(DETECT_ORDER[i])}
    IN  IF hits = {} THEN "None"
        ELSE DETECT_ORDER[CHOOSE i \in hits : \A j \in hits : i <= j]

\* C11: detect_chip returns the loader of the first class, in its fixed
\* order, whose CHIP_DETECT_MAGIC_VALUE holds the value read, and that class
\* is the only one it instantiated; when no class holds the value it raises
\* the FatalError that names the value read, and it raises that error in no
\* other case.
C11_FirstMatchWins ==
    /\ dc.pc = "returned" =>
          /\ FirstMatch(dc.magic) # "None"
          /\ dc.result.cls = FirstMatch(dc.magic)
          /\ dc.inst = dc.result.cls
          /\ dc.initialised = <<FirstMatch(dc.magic)>>
    /\ (dc.pc = "raised" /\ dc.magic # "" /\ dc.inst = "None") =>
          /\ FirstMatch(dc.magic) = "None"
          /\ dc.error = UNEXPECTED_MAGIC
          /\ dc.reported = dc.magic
          /\ dc.initialised = <<>>
    /\ dc.error = UNEXPECTED_MAGIC => (dc.magic # "" /\ FirstMatch(dc.magic) = "None")
    /\ dc.inst \in {"None", FirstMatch(dc.magic)}

\* the third value of the fifth class of the list is matched
C11_Witness ==
    /\ dc.pc = "returned"
    /\ dc.magic = "4881606f"
    /\ dc.result.cls = "ESP32C3ROM"
    /\ dc.initialised = <<"ESP32C3ROM">>

\* C12 as it stands: a connect that ends in its loop over the attempts
\* without a successful attempt has made all attempts of a positive budget and
\* raises 'Failed to connect'.  (The IndexError of C3 is left aside.)
C12_Original ==
    (cn.pc = "raised" /\ cn.raised_in = "attempt" /\ cn.error # "IndexError") =>
        /\ cn.error = FAILED_TO_CONNECT
        /\ cn.attempts > 0
        /\ cn.made = cn.attempts

\* C12, amended: with attempts = n > 0 connect calls _connect_attempt at most
\* n times, goes on only after an attempt that returned an error, and raises
\* 'Failed to connect' exactly when n attempts have returned an error; with
\* attempts <= 0 it never raises that error and after every attempt that
\* returned an error it is about to make another.  An exception of sync()
\* that is no FatalError ends connect at once, whatever the budget.
C12_AttemptBudget ==
    /\ cn.attempts > 0 => cn.made <= cn.attempts
    /\ cn.failed <= cn.made
    /\ cn.made <= cn.failed + 1
    /\ cn.pc \in {"post", "connected"} => (cn.made = cn.failed + 1 /\ cn.last_error = "")
    /\ cn.error = FAILED_TO_CONNECT <=>
          (cn.attempts > 0 /\ cn.failed = cn.attempts)
    /\ cn.error = FAILED_TO_CONNECT =>
          (cn.pc = "raised" /\ cn.made = cn.attempts /\ cn.last_error # "")
    /\ (cn.attempts <= 0 /\ cn.pc # "idle" /\ cn.failed = cn.made) => cn.pc = "loop"
    /\ (cn.attempts > 0 /\ cn.failed = cn.made /\ cn.made < cn.attempts) => cn.pc = "loop"
    /\ (cn.raised_in = "attempt" /\ cn.error # FAILED_TO_CONNECT) =>
          /\ cn.error \in SyncOutcomes \ {"return", "FatalError"}
          /\ cn.made = cn.failed + 1

\* three attempts allowed, three made, all failed
C12_Witness ==
    /\ cn.attempts = 3
    /\ cn.made = 3
    /\ cn.failed = 3
    /\ cn.error = FAILED_TO_CONNECT

C14_StubAlreadyRunning ==
    /\ (rs.pc # "idle" /\ rs.self.sync_stub_detected) =>
          /\ rs.pc = "returned"
          /\ rs.cmds = <<>>
          /\ rs.reads = 0
          /\ rs.result = StubClass(rs.self)
          /\ rs.result.IS_STUB
    /\ (rs.pc \notin {"idle", "mem_begin"} /\ ~rs.self.sync_stub_detected) =>
          /\ rs.cmds # <<>>
          /\ rs.cmds[1].cmd = "mem_begin"
    /\ \A l \in Loaders : l.IS_STUB => l.sync_stub_detected

\* run_stub on a ROM loader of an ESP32 whose sync saw a stub
C14_Witness ==
    /\ rs.pc = "returned"
    /\ rs.self.sync_stub_detected
    /\ ~rs.self.IS_STUB
    /\ rs.self.cls = "ESP32ROM"
    /\ rs.result.IS_STUB
    /\ rs.cmds = <<>>


\* ------------------------------------------------------------------------
\* Claims about the window
\* ------------------------------------------------------------------------

\* C16: no two commands are ever in flight at once on one channel: at any
\* time at most one flashing session owns a given serial port, also when
\* the flash action is triggered again while a FlashingThread started before
\* for the same port is still running.
C16_ExclusivePort ==
    \A port \in Ports :
        /\ Cardinality(Owners(port)) <= 1
        /\ Cardinality(InFlight(port)) <= 1

\* ------------------------------------------------------------------------
\* Claims about firmware images
\* ------------------------------------------------------------------------

\* C17: verify() rejects every image that holds more than 16 segments (17 in
\* particular) with a fatal error, and accepts every image that holds 0 to
\* 16 segments.
C17_SegmentCountBound ==
    /\ im.pc = "raised" =>
          /\ Len(im.segments) > 16
          /\ im.error = INVALID_SEGMENT_COUNT
    /\ im.pc = "verified" =>
          /\ Len(im.segments) \in 0..16
          /\ im.error = ""
    /\ im.pc \in {"raised", "verified"} /\ Len(im.segments) = 17 =>
          im.pc = "raised"

\* an image of 17 segments was rejected
C17_Witness ==
    /\ im.pc = "raised"
    /\ Len(im.segments) = 17
    /\ im.error = INVALID_SEGMENT_COUNT

\* the memory regions of the map that hold the start of a segment
RegionsOf(segment) ==
    {r \in 1..Len(MEMORY_MAP) :
        MEMORY_MAP[r].lo <= segment.addr /\ segment.addr < MEMORY_MAP[r].hi}

\* the second segment starts exactly where the first ends, both start in
\* the same memory region(s), both have the same checksum-inclusion flag
Adjacent(first, second) ==
    /\ second.addr = first.addr + BLen(first.data)
    /\ RegionsOf(first) = RegionsOf(second)
    /\ first.include_in_checksum = second.include_in_checksum

\* the places of a list where a run of adjacent segments starts
RunStarts(list) ==
    {i \in 1..Len(list) : i = 1 \/ ~Adjacent(list[i - 1], list[i])}

\* the start of the k-th run
RunStart(list, k) ==
    CHOOSE i \in RunStarts(list) :
        Cardinality({j \in RunStarts(list) : j <= i}) = k

\* the end of the run that starts at i
RunEnd(list, i) ==
    IF \E j \in RunStarts(list) : j > i
       THEN (CHOOSE j \in RunStarts(list) :
                /\ j > i
                /\ \A h \in RunStarts(list) : h > i => j <= h) - 1
       ELSE Len(list)

RECURSIVE DataOf(_, _, _)
\* the data of the segments i..j of a list, in order
DataOf(list, i, j) ==
    IF i > j THEN <<>> ELSE BCat(list[i].data, DataOf(list, i + 1, j))

\* C19: merge_adjacent_segments merges every pair of neighbouring segments
\* of which the second starts exactly where the first ends, both in the same
\* memory region and with the same checksum-inclusion flag, and no other
\* pair: the result holds one segment for each maximal run of such
\* neighbours, in the original order, with the address and flag of the
\* run's first segment and the data of the run concatenated; no two
\* neighbours of the result can still be merged; 0x1000,len 0x10 followed
\* by 0x1010,len 0x20 becomes one segment 0x1000,len 0x30.
C19_MergeAdjacent ==
    im.pc = "merged" =>
        /\ Len(im.segments) = Cardinality(RunStarts(im.loaded))
        /\ \A k \in 1..Len(im.segments) :
              LET i == RunStart(im.loaded, k)
              IN /\ im.segments[k].addr = im.loaded[i].addr
                 /\ im.segments[k].include_in_checksum
                        = im.loaded[i].include_in_checksum
                 /\ im.segments[k].data
                        = DataOf(im.loaded, i, RunEnd(im.loaded, i))
        /\ \A k \in 1..(Len(im.segments) - 1) :
              ~Adjacent(im.segments[k], im.segments[k + 1])
        /\ im.loaded = <<ImageSegment(4096, Run(17, 16)),
                         ImageSegment(4112, Run(34, 32))>> =>
              /\ Len(im.segments) = 1
              /\ im.segments[1].addr = 4096
              /\ BLen(im.segments[1].data) = 48

\* three sections of which the first two were merged and the third was not
C19_Witness ==
    /\ im.pc = "merged"
    /\ Len(im.loaded) = 3
    /\ Len(im.segments) = 2
    /\ BLen(im.segments[1].data) = 48

\* ------------------------------------------------------------------------
\* Claims about the checksum
\* ------------------------------------------------------------------------

\* C20: checksum(data, seed) depends only on data and seed, and folding the
\* same data twice gives the seed back: checksum(data, checksum(data, seed))
\* = seed for every byte sequence and every 8-bit seed.
C20_FoldTwice ==
    /\ cs.pc = "twice" => cs.state = cs.seed
    /\ cs.pc = "once" /\ Len(cs.data) = 1 =>
          /\ cs.state \in 0..255
          /\ \A bit \in {1, 2, 4, 8, 16, 32, 64, 128} :
                ((cs.state \div bit) % 2 = 1)
                    <=> ((cs.data[1] \div bit) % 2 # (cs.seed \div bit) % 2)

\* data that changes the seed was folded twice
C20_Witness ==
    /\ cs.pc = "twice"
    /\ Len(cs.data) = 3
    /\ Checksum(cs.data, cs.seed) # cs.seed
    /\ cs.state = cs.seed

\* ------------------------------------------------------------------------
\* Claims about ESP32FirmwareImage.save
\* ------------------------------------------------------------------------

\* C18: for every segment list save accepts, each flash-mapped segment is
\* written at a file offset such that the offset plus the 8 bytes of the
\* sub-header is congruent to the segment's load address modulo IROM_ALIGN,
\* and the assertion that says so before a flash segment is written never
\* fails, whatever the file position and the load address.
C18_Alignment ==
    /\ sv.error # ASSERTION_ERROR
    /\ \A k \in 1..Len(sv.written) :
          sv.written[k].kind = "flash" =>
              (sv.written[k].file_offs + 8) % IROM_ALIGN
                  = sv.written[k].addr % IROM_ALIGN
\* ------------------------------------------------------------------------
\* C21  Scenario E: flash_begin(size=0x1000, offset=0x1) on the ESP8266 ROM
\* loader, whose get_erase_size works in whole sectors, sends an erase size
\* that is at least 0x1000 and a multiple of the 0x1000 sector size.
\* ------------------------------------------------------------------------
C21_ScenarioE ==
    (fb.pc # "idle" /\ fb.self = "ESP8266ROM" /\ fb.offset = 1 /\ fb.size = 4096)
    => /\ fb.erase_size >= 4096
       /\ fb.erase_size % FLASH_SECTOR_SIZE = 0
       /\ fb.params[1] = fb.erase_size

C21_Witness ==
    /\ fb.pc = "done" /\ fb.self = "ESP8266ROM" /\ fb.offset = 1 /\ fb.size = 4096
    /\ fb.params = <<4096, 4, ROM_FLASH_WRITE_SIZE, 1>>

\* ------------------------------------------------------------------------
\* C22  Scenario A, as stated: the payload 0xC0 0xDB 0xC0 is encoded by
\* write() and the encoding is decoded; once all of it is read, the decoder
\* has rejected it with a framing error and has yielded no payload.
\* (Refuted: the encoder escapes the three bytes and the payload comes back.)
\* ------------------------------------------------------------------------
FramingErrors ==
    {"Invalid head of packet", "Invalid SLIP escape", "No serial data received",
     "Serial data stream stopped", "Packet content transfer stopped"}

C22_Original ==
    (/\ fr_written /\ fr_packet = <<SLIP_END, SLIP_ESC, SLIP_END>>
     /\ wire = <<>> /\ read_bytes = <<>> /\ sr_state # "running")
    => (fr_error \in FramingErrors /\ yielded = <<>>)

\* C22, amended: when the bytes 0xC0 0xDB 0xC0 reach the decoder as they
\* are (delimiter, escape, delimiter on the line, not encoded by write()),
\* then once the decoder has taken all of them it has rejected them with the
\* framing error 'Invalid SLIP escape' and has yielded no payload; reads
\* after that find the decoder finished.
C22_RawRejected ==
    (rx = <<SLIP_END, SLIP_ESC, SLIP_END>> /\ wire = <<>> /\ read_bytes = <<>>)
    => /\ sr_state = "finished"
       /\ yielded = <<>>
       /\ fr_error \in {"Invalid SLIP escape", "StopIteration"}

C22_Witness ==
    /\ rx = <<SLIP_END, SLIP_ESC, SLIP_END>> /\ wire = <<>> /\ read_bytes = <<>>
    /\ fr_error = "Invalid SLIP escape"

\* ------------------------------------------------------------------------
\* C23  _update_image_flash_params changes nothing but bytes 2 and 3 of the
\* buffer and never its length; it returns the buffer untouched whenever the
\* address is not the bootloader offset, the buffer is shorter than 8 bytes,
\* flash mode, frequency and size are all 'keep', the first byte is not the
\* magic 0xE9, or the buffer does not load and verify as an image.
\* ------------------------------------------------------------------------
AllKeep(args) ==
    args.flash_mode = "keep" /\ args.flash_freq = "keep" /\ args.flash_size = "keep"

C23_OnlyBytes2And3 ==
    uf.pc = "done"
    => /\ BLen(uf.result) = BLen(uf.image)
       /\ BTake(uf.result, 2) = BTake(uf.image, 2)
       /\ BDrop(uf.result, 4) = BDrop(uf.image, 4)
       /\ (\/ uf.address # uf.offset
           \/ BLen(uf.image) < 8
           \/ AllKeep(uf.args)
           \/ BAt(uf.image, 0) # ESP_IMAGE_MAGIC
           \/ ~uf.loads) => uf.result = uf.image

\* a bootloader image at the bootloader offset gets its bytes 2 and 3 set
C23_Witness ==
    /\ uf.pc = "done" /\ uf.esp = "ESP32" /\ uf.address = 4096 /\ uf.loads
    /\ uf.args = [flash_mode |-> "dio", flash_freq |-> "40m", flash_size |-> "16MB"]
    /\ BDrop(BTake(uf.image, 4), 2) = << <<0, 1>>, <<47, 1>> >>
    /\ BDrop(BTake(uf.result, 4), 2) = << <<2, 1>>, <<64, 1>> >>
    /\ uf.result # uf.image

\* ------------------------------------------------------------------------
\* C24  In write_flash no file is written both compressed and encrypted: a
\* file flagged encrypted while compression is requested is written without
\* compression (flash_begin and flash_encrypt_block, never flash_defl_begin
\* or flash_defl_block), and that holds for this file only: the files of the
\* same batch that are not encrypted are still written compressed.
\* ------------------------------------------------------------------------
C24_CompressOrEncrypt ==
    wf.index >= 1
    => /\ ~(wf.compress /\ wf.file.encrypted)
       /\ \A i \in DOMAIN wf.begun :
            /\ wf.begun[i].encrypted => wf.begun[i].cmd = "flash_begin"
            /\ (args_compress /\ ~wf.begun[i].encrypted)
               => wf.begun[i].cmd = "flash_defl_begin"
       /\ \A i \in DOMAIN wf.att :
            /\ wf.file.encrypted
               => /\ wf.att[i].fn = "flash_encrypt_block"
                  /\ wf.att[i].op # ESP_FLASH_DEFL_DATA
            /\ (args_compress /\ ~wf.file.encrypted)
               => /\ wf.att[i].fn = "flash_defl_block"
                  /\ wf.att[i].op = ESP_FLASH_DEFL_DATA

\* a batch of an encrypted file and a plain one, compression requested: the
\* first went out with flash_begin, the second with flash_defl_begin and is
\* being written with flash_defl_block
C24_Witness ==
    /\ args_compress
    /\ wf.begun = <<[encrypted |-> TRUE, cmd |-> "flash_begin"],
                    [encrypted |-> FALSE, cmd |-> "flash_defl_begin"]>>
    /\ wf.att # <<>> /\ wf.att[1].fn = "flash_defl_block"
    /\ wf.att[1].outcome = "return"

\* ------------------------------------------------------------------------
\* C25  The decoded frame sequence is restartable: after a read() on a
\* loader has failed with a framing error or because the stream stopped, a
\* later read() on the same loader decodes the frames that arrive, starting
\* from the wait for a delimiter; so no read() finds the decoder finished
\* and ends with StopIteration, and the retry of a flash block whose first
\* attempt timed out is a real second attempt.
\* (Refuted: only flush_input() makes a new decoder; the retry loops of
\* flash_block do not call it.)
\* ------------------------------------------------------------------------
C25_Restartable == fr_error # READER_FINISHED

\* ------------------------------------------------------------------------
\* C26  Scoped timeout: on every way out of ESPLoader.command (a response
\* returned, the return without waiting for one, a failed read, an
\* UnsupportedCommandError, no matching response after 100 frames) the read
\* timeout of the port is the one it had when command was entered; while
\* command runs it is min(timeout, MAX_TIMEOUT).
\* ------------------------------------------------------------------------
C26_ScopedTimeout ==
    LET capped == IF tm.timeout < MAX_TIMEOUT THEN tm.timeout ELSE MAX_TIMEOUT
    IN  /\ cm_pc = "done" => tm.port = tm.entry
        /\ cm_pc = "reading" => tm.port = capped
        /\ cm_pc # "idle" => tm.during = capped

\* a command with a timeout above MAX_TIMEOUT, on a port that came with a
\* timeout of its own, gives up after 100 frames: the port has its timeout back
C26_Witness ==
    /\ cm_pc = "done"
    /\ cm_outcome = "FatalError: Response doesn't match request"
    /\ cm_retry = COMMAND_RETRIES
    /\ tm.timeout = LONG_TIMEOUT /\ tm.during = MAX_TIMEOUT
    /\ tm.entry = DEFAULT_TIMEOUT /\ tm.port = DEFAULT_TIMEOUT

\* ------------------------------------------------------------------------
\* C27  The decoder never yields a payload from a malformed stream: when it
\* takes a byte other than 0xC0 while it waits for the start of a packet, or
\* a byte other than 0xDC and 0xDD right after 0xDB inside a packet, decoding
\* ends with the framing error for that case, nothing is yielded by that
\* step, and a decoder that has ended yields nothing afterwards: the packet
\* it had partially received is not delivered.
\* ------------------------------------------------------------------------
C27_MalformedRejected ==
    [][/\ (/\ sr_state = "running" /\ read_bytes # <<>>
           /\ read_bytes' = Tail(read_bytes)
           /\ partial_packet = <<>> /\ Head(read_bytes) # SLIP_END)
          => /\ sr_state' = "finished"
             /\ fr_error' = "Invalid head of packet"
             /\ yielded' = yielded
       /\ (/\ sr_state = "running" /\ read_bytes # <<>>
           /\ read_bytes' = Tail(read_bytes)
           /\ partial_packet # <<>> /\ in_escape
           /\ Head(read_bytes) \notin {SLIP_ESC_END, SLIP_ESC_ESC})
          => /\ sr_state' = "finished"
             /\ fr_error' = "Invalid SLIP escape"
             /\ yielded' = yielded
       /\ (sr_state = "finished" /\ sr_state' = "finished")
          => /\ yielded' = yielded
             /\ partial_packet' = partial_packet
      ]_vars

\* a frame was delivered, the byte after it is no delimiter: decoding has
\* ended, and what was delivered is the frame alone
C27_Witness ==
    /\ rx = <<SLIP_END, 1, SLIP_END, 1>>
    /\ sr_state = "finished"
    /\ fr_error = "Invalid head of packet"
    /\ yielded = << <<1>> >>

\* ------------------------------------------------------------------------
\* C28  Across the attempts of one connect call the extra-delay flag
\* alternates and starts with no extra delay: attempt k, counting from 0, is
\* made with extra_delay exactly when k is odd, whether the budget of
\* attempts is bounded or not.
\* ------------------------------------------------------------------------
C28_ExtraDelayAlternates ==
    /\ Len(cn.delays) = cn.made
    /\ \A k \in 0..(cn.made - 1) : cn.delays[k + 1] <=> (k % 2 = 1)

\* four attempts of a connect with an unbounded budget
C28_Witness ==
    /\ cn.attempts <= 0
    /\ cn.made >= 4
    /\ SubSeq(cn.delays, 1, 4) = <<FALSE, TRUE, FALSE, TRUE>>

\* ------------------------------------------------------------------------
\* C29  One connection attempt makes at most one bootloader reset, followed
\* by at most 5 syncs, each right after a flush of the input and a flush of
\* the output; it returns success at the first sync that completes, and the
\* error of the last sync after 5 failed ones; in mode 'no_reset' no control
\* line is toggled; in mode 'no_reset_no_sync' there is neither a reset nor
\* a sync and the attempt succeeds.
\* (Refuted as it stands: after a reset that showed a boot log, the error
\* returned is not the one of the last sync.)
\* ------------------------------------------------------------------------
RECURSIVE SyncRounds(_)
SyncRounds(n) ==
    IF n = 0 THEN <<>>
    ELSE SyncRounds(n - 1) \o <<"flush_input", "flushOutput", "sync">>

\* what C29 says of the events of an attempt and of its success
AttemptShape ==
    /\ cn.tries <= SYNC_TRIES
    /\ Len(cn.syncs) = cn.tries
    /\ cn.log = (IF cn.made > 0 /\ cn.mode = "default_reset"
                 THEN <<"bootloader_reset">> ELSE <<>>) \o SyncRounds(cn.tries)
    /\ cn.mode = "no_reset" => \A i \in DOMAIN cn.log : cn.log[i] # "bootloader_reset"
    /\ (cn.mode = "no_reset_no_sync" /\ cn.made > 0)
       => (cn.log = <<>> /\ cn.returned = "None")
    /\ \A i \in DOMAIN cn.syncs :
          i < cn.tries => cn.syncs[i] = "FatalError"
    /\ (cn.returned = "None" /\ cn.mode # "no_reset_no_sync")
       => (cn.tries >= 1 /\ cn.syncs[cn.tries] = "return")
    /\ (cn.tries >= 1 /\ cn.syncs[cn.tries] = "return") => cn.returned = "None"
    /\ cn.returned \notin {"", "None"}
       => (cn.tries = SYNC_TRIES /\ cn.syncs[SYNC_TRIES] = "FatalError")

C29_Original ==
    /\ AttemptShape
    /\ (cn.tries = SYNC_TRIES /\ cn.syncs[SYNC_TRIES] = "FatalError")
       => cn.returned = cn.syncs[SYNC_TRIES]

\* C29, amended: as above, but after 5 failed syncs the attempt returns the
\* error of the last sync only when the reset showed no boot log; when it
\* showed one, the attempt returns a FatalError that reports the boot mode
\* instead ('Wrong boot mode detected', or 'Download mode successfully
\* detected, but getting no sync reply').
C29_Attempt ==
    /\ AttemptShape
    /\ (cn.tries = SYNC_TRIES /\ cn.syncs[SYNC_TRIES] = "FatalError")
       => cn.returned = (CASE cn.boot = "none" -> cn.syncs[SYNC_TRIES]
                           [] cn.boot = "boot" -> WRONG_BOOT_MODE
                           [] cn.boot = "download" -> NO_SYNC_REPLY)

\* the second attempt of a connect: a reset that shows a boot log, then five
\* syncs that fail
C29_Witness ==
    /\ cn.made = 2 /\ cn.mode = "default_reset" /\ cn.boot = "boot"
    /\ cn.tries = SYNC_TRIES
    /\ cn.log[1] = "bootloader_reset" /\ Len(cn.log) = 1 + 3 * SYNC_TRIES
    /\ cn.returned = WRONG_BOOT_MODE

\* ------------------------------------------------------------------------
\* C30  After a successful sync with an explicitly selected profile (connect
\* with detecting=False), connect reads the magic register again: a value of
\* another known profile makes connect fail with the wrong-chip error; a
\* value of no known profile lets connect proceed to its hooks; a read
\* rejected with UnsupportedCommandError sets secure_download_mode and lets
\* connect proceed; and in every case connect ends connected or with a
\* FatalError, never with a failure of another kind.
\* (Violated: read_reg can leave connect with the IndexError of C3.)
\* ------------------------------------------------------------------------

\* the errors of the session that are FatalError
FatalConnectionErrors == {"FatalError", WRONG_CHIP, FAILED_TO_CONNECT}

C30_Original ==
    (/\ ~cn.detecting
     /\ cn.tries >= 1 /\ cn.syncs[cn.tries] = "return"
     /\ cn.read # "")
    => /\ (/\ cn.read = "return"
           /\ cn.magic \notin MagicValues(cn.cls)
           /\ Actually(CONNECT_ORDER, cn.magic) # "None")
          => (cn.pc = "raised" /\ cn.error = WRONG_CHIP /\ cn.hooks = "")
       /\ (cn.read = "return" /\ Actually(CONNECT_ORDER, cn.magic) = "None")
          => cn.hooks # ""
       /\ cn.read = "UnsupportedCommandError"
          => (cn.secure_download_mode /\ cn.hooks # "")
       /\ \/ cn.pc = "connected"
          \/ cn.pc = "raised" /\ cn.error \in FatalConnectionErrors

\* ------------------------------------------------------------------------
\* C31  When the chip-ID query is available and returns an ID other than the
\* one the profile expects, the connection is not aborted: stub_is_disabled
\* is set on the loader, main does not call run_stub, and the session goes
\* on with the ROM loader.
\* (Violated: detect_chip wraps the loader in its stub class when the sync
\* detected a running stub, and the wrapper does not carry the flag.)
\* ------------------------------------------------------------------------

\* check_chip_id found another chip ID, in connect or in detect_chip
ChipIdMismatch ==
    \/ dc.pc = "idle" /\ cn.pc = "connected" /\ cn.hooks = "mismatch"
    \/ dc.pc = "returned" /\ dc.hook = "mismatch"

C31_Original ==
    ChipIdMismatch
    => /\ MainLoader.stub_is_disabled
       /\ rs.pc # "idle"
          => /\ rs.pc = "rom_only"
             /\ ~rs.called
             /\ rs.cmds = <<>>
             /\ ~rs.result.IS_STUB

\* ------------------------------------------------------------------------
\* C32  run_stub uploads the text and then the data of the stub; for each it
\* sends one mem_begin (size, ceil(size / ESP_RAM_BLOCK) blocks, the block
\* size, the load address) and then that many mem_block commands, numbered
\* 0, 1, 2, ... and each with the checksum of its own data; mem_finish with
\* the entry address of the stub is sent once, after the last block of the
\* data, and before the handshake frame is read.
\* ------------------------------------------------------------------------

\* the last command of the upload of field f has been sent at position i
LastOfField(i, f) ==
    /\ i >= 1 /\ i <= Len(rs.cmds)
    /\ rs.cmds[i].cmd = "mem_block" /\ rs.cmds[i].field = f
    /\ rs.cmds[i].seq = ((rs.stub[f] + ESP_RAM_BLOCK - 1) \div ESP_RAM_BLOCK) - 1

C32_UploadOrder ==
    LET c == IF rs.called THEN rs.cmds ELSE <<>>
    IN  /\ \A i \in DOMAIN c :
              c[i].cmd = "mem_begin"
              => /\ c[i].size = rs.stub[c[i].field]
                 /\ c[i].blocks * ESP_RAM_BLOCK >= c[i].size
                 /\ (c[i].blocks - 1) * ESP_RAM_BLOCK < c[i].size
                 /\ c[i].blocksize = ESP_RAM_BLOCK
                 /\ c[i].offset = (IF c[i].field = 1 THEN TEXT_START ELSE DATA_START)
                 /\ \/ i = 1 /\ c[i].field = 1
                    \/ c[i].field = 2 /\ LastOfField(i - 1, 1)
        /\ \A i \in DOMAIN c :
              c[i].cmd = "mem_block"
              => /\ i > 1
                 /\ c[i - 1].field = c[i].field
                 /\ \/ c[i - 1].cmd = "mem_begin" /\ c[i].seq = 0
                    \/ c[i - 1].cmd = "mem_block" /\ c[i].seq = c[i - 1].seq + 1
                 /\ c[i].seq * ESP_RAM_BLOCK < rs.stub[c[i].field]
                 /\ c[i].len = Min(ESP_RAM_BLOCK,
                                   rs.stub[c[i].field] - (c[i].seq * ESP_RAM_BLOCK))
                 /\ c[i].chk = ChecksumRuns(
                                   Run(IF c[i].field = 1 THEN 1 ELSE 85, c[i].len),
                                   ESP_CHECKSUM_MAGIC)
        /\ \A i \in DOMAIN c :
              c[i].cmd = "mem_finish"
              => /\ i = Len(c)
                 /\ c[i].offset = STUB_ENTRY
                 /\ LastOfField(i - 1, 2)
        /\ rs.reads > 0 => (c # <<>> /\ c[Len(c)].cmd = "mem_finish")
        /\ rs.pc = "handshake" => (c # <<>> /\ c[Len(c)].cmd = "mem_finish")

\* a text of one block and one byte and a data of one block: two begins,
\* three blocks, the finish, and the handshake that returns the stub loader
C32_Witness ==
    /\ rs.called /\ rs.pc = "returned" /\ rs.reads = 1
    /\ rs.stub = <<ESP_RAM_BLOCK + 1, ESP_RAM_BLOCK>>
    /\ Len(rs.cmds) = 6
    /\ rs.cmds[3].seq = 1 /\ rs.cmds[3].len = 1 /\ rs.cmds[3].chk = 238
    /\ rs.cmds[5].chk = ESP_CHECKSUM_MAGIC
    /\ rs.cmds[6].cmd = "mem_finish"

\* ------------------------------------------------------------------------
\* C33  Before it uploads to RAM, mem_begin on a stub loader checks the load
\* range [offset, offset + size) against the text and the data of the
\* resident stub: when the range overlaps one of them it raises the
\* FatalError 'Software loader is resident ...', no mem_begin command is
\* sent, and nothing is sent after it.
\* ------------------------------------------------------------------------

\* the ranges [a, a + n) and [b, b + k) have an address in common
Intersects(a, n, b, k) ==
    LET lo == IF a > b THEN a ELSE b
        hi == IF a + n < b + k THEN a + n ELSE b + k
    IN  lo < hi

C33_NoOverlappingLoad ==
    (/\ rs.self.IS_STUB /\ rs.load # <<>>
     /\ \/ Intersects(rs.load[1], rs.load[2], TEXT_START, rs.stub[1])
        \/ Intersects(rs.load[1], rs.load[2], DATA_START, rs.stub[2]))
    => /\ rs.pc = "raised"
       /\ rs.error = STUB_RESIDENT
       /\ rs.cmds = <<>>
       /\ rs.result = NoLoader

\* four bytes that start two bytes into the data of the stub, and leave its
\* text alone, are refused
C33_Witness ==
    /\ rs.self.IS_STUB
    /\ rs.load = <<DATA_START + 2, 4>>
    /\ rs.pc = "raised" /\ rs.error = STUB_RESIDENT /\ rs.cmds = <<>>

\* C34 as stated: no finish function sends its command to a ROM loader when
\* reboot is false
C34_Original ==
    \A i \in DOMAIN wf.finish :
        (~esp.IS_STUB /\ ~wf.finish[i].reboot) => ~wf.finish[i].sent

\* C34: on a ROM loader write_flash calls neither finish function, and
\* flash_defl_finish sends no command to a ROM loader when reboot is false;
\* flash_finish sends its command whenever it is called, to a ROM loader with
\* reboot false as well
C34_RomFinishSkipped ==
    /\ ~esp.IS_STUB => \A i \in DOMAIN wf.finish : wf.finish[i].by # "write_flash"
    /\ (wf.pc \in {"done", "left"} /\ esp.IS_STUB) =>
          /\ Len(wf.finish) >= 1
          /\ wf.finish[1].by = "write_flash" /\ wf.finish[1].sent
    /\ \A i \in DOMAIN wf.finish :
          /\ (wf.finish[i].fn = "flash_defl_finish" /\ ~esp.IS_STUB
                /\ ~wf.finish[i].reboot) => ~wf.finish[i].sent
          /\ wf.finish[i].fn = "flash_finish" => wf.finish[i].sent

\* write_flash has returned on the ROM loader of an ESP32 without a finish
\* call, and a flash_defl_finish(False) after it has sent nothing
C34_Witness ==
    /\ wf.pc = "left" /\ esp.name = "ESP32ROM" /\ wf.file_done
    /\ wf.finish = <<[by |-> "soft_reset", fn |-> "flash_defl_finish",
                      reboot |-> FALSE, sent |-> FALSE]>>

\* append_checksum has run: save is done, or the assert after it has failed
ChecksumAppended ==
    sv.pc = "done" \/ (sv.pc = "raised" /\ sv.error = SECURE_PAD_ASSERTION)

RECURSIVE FoldWritten(_, _)
\* the seed folded over the data of the written segments, in file order
FoldWritten(written, state) ==
    IF written = <<>> THEN state
    ELSE FoldWritten(Tail(written), ChecksumRuns(written[1].data, state))

\* the checksum byte ends the first 16-byte block that ends after end_pos
ChecksumPlaced ==
    /\ sv.image_length % 16 = 0
    /\ sv.image_length > sv.end_pos
    /\ sv.image_length - 16 <= sv.end_pos
    /\ sv.checksum_pos = sv.image_length - 1

\* segments written by save_segment with a running checksum
Checksummed(entry) == entry.kind # "irom"

\* segments whose data is not zero padding
NotZeroPadding(entry) ==
    Checksummed(entry) /\ ~(entry.addr = 0 /\ entry.kind \in {"pad", "secure_pad"})

\* C35 as stated: the checksum byte is the fold over the bytes of every
\* segment written
C35_Original ==
    ChecksumAppended =>
        /\ ChecksumPlaced
        /\ sv.checksum_byte = FoldWritten(sv.written, ESP_CHECKSUM_MAGIC)

\* C35: from every file position reached after the last segment,
\* append_checksum writes one checksum byte as the last byte of the file so
\* that the length is the next multiple of 16 above that position; the byte
\* is the fold from 0xEF over the data of the segments written with a running
\* checksum, which leaves out the irom0 segment of a V2 image, and segments
\* of zero padding do not change it
C35_ChecksumByte ==
    ChecksumAppended =>
        /\ ChecksumPlaced
        /\ sv.checksum_byte =
              FoldWritten(SelectSeq(sv.written, Checksummed), ESP_CHECKSUM_MAGIC)
        /\ sv.checksum_byte =
              FoldWritten(SelectSeq(sv.written, NotZeroPadding), ESP_CHECKSUM_MAGIC)

\* an ESP32 image saved with a segment of zero padding, its last segment
\* ending on a multiple of 16, and a checksum that is not the seed
C35_Witness ==
    /\ sv.pc = "done" /\ sv.image = "ESP32FirmwareImage"
    /\ sv.end_pos % 16 = 0 /\ sv.image_length = sv.end_pos + 16
    /\ sv.checksum_byte # ESP_CHECKSUM_MAGIC
    /\ \E i \in DOMAIN sv.written :
          sv.written[i].kind = "pad" /\ sv.written[i].addr = 0

\* C36: the file ESP32FirmwareImage.save writes of an image verify() has
\* accepted holds at most 16 segment records, padding segments included, and
\* the segment count in its header is the number of records written
C36_SegmentLimit ==
    (sv.pc = "done" /\ sv.image = "ESP32FirmwareImage") =>
        /\ ~VerifyRaises(im.segments)
        /\ Len(sv.written) <= MAX_SEGMENTS
        /\ sv.header_segments = Len(sv.written)

C38_Original ==
    /\ dc.inst # "None" => dc.pc = "returned"
    /\ (dc.pc = "raised" /\ dc.magic # "") => dc.inst = "None"

\* C38: once a class has matched the magic value and its loader was created,
\* an error of _post_connect or check_chip_id, UnsupportedCommandError
\* included, is discarded and detect_chip returns the loader, wrapped in its
\* stub class when the sync detected a stub; detect_chip raises after the
\* match only when no loader was created, or when building the stub loader
\* of an ESP32-S2 or ESP32-S3 raises after a hook error
C38_HookErrorDiscarded ==
    /\ dc.inst # "None" =>
          \/ /\ dc.pc = "returned"
             /\ dc.error = ""
             /\ dc.result.cls = dc.inst
             /\ dc.result.IS_STUB = cn.sync_stub_detected
          \/ /\ dc.pc = "raised"
             /\ cn.sync_stub_detected
             /\ dc.inst \in {"ESP32S2ROM", "ESP32S3ROM"}
             /\ dc.hook \in {"FatalError", "UnsupportedCommandError"}
             /\ dc.error = dc.wrap
    /\ (dc.pc = "raised" /\ dc.magic # "" /\ dc.inst = "None") =>
          dc.error = UNEXPECTED_MAGIC
    /\ (dc.pc = "returned" /\ dc.hook \in {"FatalError", "UnsupportedCommandError"}) =>
          dc.error = ""

\* the hooks of an ESP32-C3 found with a stub running raised
\* UnsupportedCommandError, and detect_chip has returned its stub loader
C38_Witness ==
    /\ dc.pc = "returned"
    /\ dc.hook = "UnsupportedCommandError"
    /\ dc.inst = "ESP32C3ROM"
    /\ dc.result.IS_STUB /\ dc.result.cls = "ESP32C3ROM"
    /\ dc.error = ""

\* the records of flash-mapped segments
IsFlashRecord(entry) == entry.kind = "flash"

\* the records that hold bytes of RAM segments: whole segments, and the
\* pieces split off as padding
IsRamRecord(entry) == entry.kind = "ram" \/ (entry.kind = "pad" /\ entry.addr # 0)

RECURSIVE SumLen(_)
\* the bytes of a list of segments or of records
SumLen(list) ==
    IF list = <<>> THEN 0
    ELSE (IF "len" \in DOMAIN list[1] THEN list[1].len ELSE BLen(list[1].data))
             + SumLen(Tail(list))

RECURSIVE Joined(_)
\* the data of a list of segments or of records, one after the other
Joined(list) ==
    IF list = <<>> THEN <<>> ELSE BCat(list[1].data, Joined(Tail(list)))

\* the while loop of save is over
PlacementOver ==
    \/ sv.pc \in {"ram", "done"}
    \/ sv.pc = "raised" /\ sv.error = SECURE_PAD_ASSERTION

\* C39: the loop of ESP32FirmwareImage.save that places the segments writes
\* one segment in every turn, a flash segment or a padding segment, and never
\* ends in an error; when it is over every flash-mapped segment is written
\* once, in address order, and when save is done the bytes of the RAM
\* segments are written once, in the order of the segments by address
C39_PlacementLoop ==
    sv.image = "ESP32FirmwareImage" =>
        /\ sv.error # ASSERTION_ERROR
        /\ sv.total_segments = Len(sv.written)
        /\ PlacementOver =>
              LET flash == SelectSeq(SortByAddr(im.segments), IsFlashSegment)
                  records == SelectSeq(sv.written, IsFlashRecord)
              IN  /\ sv.flash_segments = <<>>
                  /\ Len(records) = Len(flash)
                  /\ \A i \in DOMAIN records :
                        /\ records[i].addr = flash[i].addr
                        /\ records[i].len >= BLen(flash[i].data)
        /\ sv.pc = "done" =>
              LET ram == SelectSeq(SortByAddr(im.segments), IsRamSegment)
                  records == SelectSeq(sv.written, IsRamRecord)
              IN  /\ sv.ram_segments = <<>>
                  /\ SumLen(records) = SumLen(ram)
                  /\ Joined(records) = Joined(ram)
                  /\ \A i \in DOMAIN records : \E k \in DOMAIN ram :
                        /\ ram[k].addr <= records[i].addr
                        /\ records[i].addr + records[i].len
                              <= ram[k].addr + BLen(ram[k].data)

\* ------------------------------------------------------------------------
\* C40: the order of the commands of write_flash
\* ------------------------------------------------------------------------

IsBeginCmd(entry) == entry.cmd \in {"flash_begin", "flash_defl_begin"}

IsBlockCmd(entry) ==
    entry.cmd \in {"flash_block", "flash_defl_block", "flash_encrypt_block"}

\* the number of blocks the log of the file at hand holds
BlocksLogged == Cardinality({i \in 1..Len(wf.log) : IsBlockCmd(wf.log[i])})

\* the commands of one file: the begin command first and only once, then the
\* blocks, the k-th with sequence number k and the data at offset
\* k * FLASH_WRITE_SIZE of the image, every attempt of a block with the
\* number and the data of the block, then on a stub the register read, after
\* the block that ends the image, then the MD5 request, which is the last
\* command of the file
FileCommandOrder ==
    LET log == wf.log
        fws == esp.FLASH_WRITE_SIZE
        n == BlocksLogged
    IN  log # <<>> =>
            /\ IsBeginCmd(log[1])
            /\ \A i \in 2..Len(log) : ~IsBeginCmd(log[i])
            /\ \A i \in 2..(n + 1) :
                   /\ IsBlockCmd(log[i])
                   /\ log[i].seq = i - 2
                   /\ log[i].lo = (i - 2) * fws
            /\ n > 0 =>
                   /\ wf.att # <<>>
                   /\ \A k \in 1..Len(wf.att) :
                          /\ wf.att[k].seq = log[n + 1].seq
                          /\ wf.att[k].lo = log[n + 1].lo
                   /\ wf.seq \in {n - 1, n}
                   /\ wf.seq = n <=> wf.att[Len(wf.att)].outcome = "return"
            /\ n = 0 => wf.seq = 0
            /\ \A i \in 1..Len(log) :
                   /\ log[i].cmd = "read_reg" =>
                          /\ esp.IS_STUB
                          /\ i = n + 2
                          /\ n > 0
                          /\ log[n + 1].lo + fws >= wf.total
                   /\ log[i].cmd = "flash_md5sum" =>
                          /\ i = Len(log)
                          /\ n > 0
                          /\ log[n + 1].lo + fws >= wf.total
                          /\ i = IF esp.IS_STUB THEN n + 3 ELSE n + 2
                          /\ esp.IS_STUB => log[i - 1].cmd = "read_reg"

\* the MD5 check of the file at hand has completed: the reply to the MD5
\* request equals the MD5 of the image, or the code makes no MD5 request for
\* the file
Md5Completed ==
    /\ wf.file_done
    /\ \/ Md5Gated /\ wf.md5 = <<>>
       \/ /\ wf.status = "verified"
          /\ wf.md5_res = wf.calcmd5
          /\ wf.log[Len(wf.log)].cmd = "flash_md5sum"

\* C40: within one file the begin command precedes every block command, the
\* blocks carry the sequence numbers 0, 1, 2, ... in the order of their data
\* in the image, the counter is 0 again at the begin command of each file,
\* on a stub a register read follows the last block and precedes the MD5
\* request, and write_flash turns to the next file only when the MD5 check
\* of the file at hand has completed
C40_CommandOrder ==
    /\ [](FileCommandOrder)
    /\ [][wf'.index > wf.index => (wf.log = <<>> \/ Md5Completed)]_vars
    /\ [][Len(wf'.log) = 1 => (IsBeginCmd(wf'.log[1]) /\ wf'.seq = 0 /\ wf.seq = 0)]_vars

\* the second file of a run on a stub, written in two blocks or more with a
\* block sent twice, the register read and the MD5 request after them
C40_Witness ==
    /\ esp.IS_STUB
    /\ wf.index = 2
    /\ wf.file.address = FileAddress(1)
    /\ BlocksLogged >= 2
    /\ Len(wf.att) >= 2
    /\ Len(wf.log) = BlocksLogged + 3
    /\ wf.log[Len(wf.log)].cmd = "flash_md5sum"
    /\ wf.status = "verified"
====
